---- MODULE Spec2Model ----
(***************************************************************************)
(* A model of the image gallery loader's caching and indexing subsystem    *)
(* (src/__init__.py): the TTL cache store (ImageCache), the directory      *)
(* indexer, the metadata scan, the query engine, pagination, the thumbnail *)
(* cache and the path checks of the entry points that take a filename.     *)
(*                                                                         *)
(* Python strings are tuples of one-character strings, so that lower(),    *)
(* startswith(), concatenation and the ordering of strings are computed    *)
(* and not assumed.  Python's None is the empty tuple and a present value  *)
(* v is the one-element tuple <<v>>.                                       *)
(***************************************************************************)
EXTENDS Integers, Sequences, FiniteSets, TLC

(***************************************************************************)
(* Strings                                                                 *)
(***************************************************************************)
Digits == <<"0", "1", "2", "3", "4", "5", "6", "7", "8", "9">>

\* The code point of a character (the part of ASCII the model uses).
CodePoints ==
    " " :> 32 @@ "-" :> 45 @@ "." :> 46 @@ "/" :> 47 @@ "0" :> 48 @@ "1" :> 49
    @@ "2" :> 50 @@ "3" :> 51 @@ "4" :> 52 @@ "5" :> 53 @@ "6" :> 54 @@ "7" :> 55
    @@ "8" :> 56 @@ "9" :> 57 @@ ":" :> 58 @@ "A" :> 65 @@ "B" :> 66 @@ "C" :> 67
    @@ "D" :> 68 @@ "E" :> 69 @@ "F" :> 70 @@ "G" :> 71 @@ "H" :> 72 @@ "I" :> 73
    @@ "J" :> 74 @@ "K" :> 75 @@ "L" :> 76 @@ "M" :> 77 @@ "N" :> 78 @@ "O" :> 79
    @@ "P" :> 80 @@ "Q" :> 81 @@ "R" :> 82 @@ "S" :> 83 @@ "T" :> 84 @@ "U" :> 85
    @@ "V" :> 86 @@ "W" :> 87 @@ "X" :> 88 @@ "Y" :> 89 @@ "Z" :> 90 @@ "[" :> 91
    @@ "]" :> 93 @@ "_" :> 95 @@ "a" :> 97 @@ "b" :> 98 @@ "c" :> 99 @@ "d" :> 100
    @@ "e" :> 101 @@ "f" :> 102 @@ "g" :> 103 @@ "h" :> 104 @@ "i" :> 105 @@ "j" :> 106
    @@ "k" :> 107 @@ "l" :> 108 @@ "m" :> 109 @@ "n" :> 110 @@ "o" :> 111 @@ "p" :> 112
    @@ "q" :> 113 @@ "r" :> 114 @@ "s" :> 115 @@ "t" :> 116 @@ "u" :> 117 @@ "v" :> 118
    @@ "w" :> 119 @@ "x" :> 120 @@ "y" :> 121 @@ "z" :> 122
Ord(c) == CodePoints[c]

\* str.lower()
LowerCase ==
    "A" :> "a" @@ "B" :> "b" @@ "C" :> "c" @@ "D" :> "d" @@ "E" :> "e"
    @@ "F" :> "f" @@ "G" :> "g" @@ "H" :> "h" @@ "I" :> "i" @@ "J" :> "j"
    @@ "K" :> "k" @@ "L" :> "l" @@ "M" :> "m" @@ "N" :> "n" @@ "O" :> "o"
    @@ "P" :> "p" @@ "Q" :> "q" @@ "R" :> "r" @@ "S" :> "s" @@ "T" :> "t"
    @@ "U" :> "u" @@ "V" :> "v" @@ "W" :> "w" @@ "X" :> "x" @@ "Y" :> "y"
    @@ "Z" :> "z"
LowerChar(c) == IF c \in DOMAIN LowerCase THEN LowerCase[c] ELSE c
Lower(s) == [i \in DOMAIN s |-> LowerChar(s[i])]

Min(a, b) == IF a <= b THEN a ELSE b
Max(a, b) == IF a >= b THEN a ELSE b

\* a < b and a <= b on strings, as Python compares them (by code point).
StrLess(a, b) ==
    LET diff == { i \in 1..Min(Len(a), Len(b)) : a[i] # b[i] }
    IN IF diff = {} THEN Len(a) < Len(b)
       ELSE LET k == CHOOSE i \in diff : \A j \in diff : i <= j
            IN Ord(a[k]) < Ord(b[k])
StrLeq(a, b) == a = b \/ StrLess(a, b)

\* str.startswith(prefix), str.endswith(suffix), needle in s
StartsWith(s, prefix) ==
    /\ Len(prefix) <= Len(s)
    /\ \A i \in 1..Len(prefix) : s[i] = prefix[i]
EndsWith(s, suffix) ==
    /\ Len(suffix) <= Len(s)
    /\ \A i \in 1..Len(suffix) : s[Len(s) - Len(suffix) + i] = suffix[i]
Contains(s, needle) ==
    \E k \in 0..(Len(s) - Len(needle)) :
        \A i \in 1..Len(needle) : s[k + i] = needle[i]

\* str(n) of a number (one decimal digit is all the model's mtimes need).
Str(n) == <<Digits[n + 1]>>

None == <<>>
Some(v) == <<v>>

\* A Python dict is a function; d.get(k, default), and d[k] = v.
EmptyDict == [k \in {} |-> None]
DictGet(d, k, default) == IF k \in DOMAIN d THEN d[k] ELSE default
DictPut(d, k, v) == [x \in DOMAIN d \cup {k} |-> IF x = k THEN v ELSE d[x]]

\* key(a) <= key(b) for the two kinds of sort key the code uses: a string
\* (compared by code point) and a number.
KeyLeq(ka, kb, kind) == IF kind = "str" THEN StrLeq(ka, kb) ELSE ka <= kb

RECURSIVE InsertBeforeEqual(_, _, _, _)
\* x put into the sorted list s before the elements of an equal key: a sort
\* that is not stable.
InsertBeforeEqual(x, s, key, kind) ==
    IF s = <<>> THEN <<x>>
    ELSE IF KeyLeq(key[s[Len(s)]], key[x], kind) /\ key[s[Len(s)]] # key[x]
         THEN Append(s, x)
    ELSE Append(InsertBeforeEqual(x, SubSeq(s, 1, Len(s) - 1), key, kind), s[Len(s)])

RECURSIVE InsertSorted(_, _, _, _)
\* x put into the sorted list s after every element whose key is not
\* greater, which is what keeps sorted() stable.
InsertSorted(x, s, key, kind) ==
    IF s = <<>> THEN <<x>>
    ELSE IF KeyLeq(key[s[Len(s)]], key[x], kind) THEN Append(s, x)
    ELSE Append(InsertSorted(x, SubSeq(s, 1, Len(s) - 1), key, kind), s[Len(s)])

RECURSIVE Sorted(_, _, _)
\* sorted(s, key=...): stable, ascending; key maps each element to its key.
Sorted(s, key, kind) ==
    IF s = <<>> THEN <<>>
    ELSE InsertSorted(s[Len(s)], Sorted(SubSeq(s, 1, Len(s) - 1), key, kind),
                      key, kind)

\* sorted(s, key=..., reverse=True): stable, descending (equal keys keep
\* their order), which is the ascending sort under the negated key.
SortedReverse(s, key) ==
    Sorted(s, [x \in DOMAIN key |-> 0 - key[x]], "num")

\* The elements of a list.
Range(s) == { s[i] : i \in 1..Len(s) }

RECURSIVE SetToSeq(_)
\* The elements of a finite set in some order (the order a walk yields them).
SetToSeq(S) ==
    IF S = {} THEN <<>>
    ELSE LET x == CHOOSE y \in S : TRUE IN <<x>> \o SetToSeq(S \ {x})

(***************************************************************************)
(* Program constants                                                       *)
(***************************************************************************)
TTL == 30
MetadataTTL == 300

\* IMAGE_EXTENSIONS
IMAGE_EXTENSIONS ==
    { <<".", "p", "n", "g">>, <<".", "j", "p", "g">>, <<".", "j", "p", "e", "g">>,
      <<".", "w", "e", "b", "p">>, <<".", "b", "m", "p">>, <<".", "t", "i", "f", "f">> }

\* folder_paths.get_input_directory(): the default root.
InputDir == <<"/", "i", "n">>
\* A second directory, which a user may register as a source folder.
ExtDir == <<"/", "x">>

(***************************************************************************)
(* Bounds of the model                                                     *)
(***************************************************************************)
\* The clock advances at most MaxTicks times, by 1 second or by one of the
\* two TTLs, which puts ages on both sides of each TTL.
MaxTicks == 2
\* Modification times a file may have (0 is what a failed stat records).
MaxMtime == 2

(***************************************************************************)
(* Paths: os.path.normpath                                                 *)
(***************************************************************************)
\* Where an operator below is written CHOOSE r \in { Body(v) : v \in {e} } : TRUE
\* it is Body(e), with e computed once before the body uses it.

RECURSIVE SplitOn(_, _)
\* s.split(c)
SplitOn(s, c) ==
    IF \A i \in DOMAIN s : s[i] # c THEN <<s>>
    ELSE LET k == CHOOSE i \in DOMAIN s : s[i] = c /\ \A j \in 1..(i - 1) : s[j] # c
         IN <<SubSeq(s, 1, k - 1)>> \o SplitOn(SubSeq(s, k + 1, Len(s)), c)

RECURSIVE JoinWith(_, _)
\* c.join(parts)
JoinWith(parts, c) ==
    IF parts = <<>> THEN <<>>
    ELSE IF Len(parts) = 1 THEN parts[1]
    ELSE parts[1] \o <<c>> \o JoinWith(Tail(parts), c)

RECURSIVE NormComps(_, _, _)
\* The loop of posixpath.normpath over the components: empty ones and "."
\* are dropped, ".." removes the component before it, stays at the front of
\* a relative path and is dropped at the root.
NormComps(comps, acc, absolute) ==
    IF comps = <<>> THEN acc
    ELSE LET c == Head(comps)
         IN IF c = <<>> \/ c = <<".">> THEN NormComps(Tail(comps), acc, absolute)
            ELSE IF c # <<".", ".">> THEN NormComps(Tail(comps), Append(acc, c), absolute)
            ELSE IF acc # <<>> /\ acc[Len(acc)] # <<".", ".">>
                 THEN NormComps(Tail(comps), SubSeq(acc, 1, Len(acc) - 1), absolute)
            ELSE IF absolute THEN NormComps(Tail(comps), acc, absolute)
            ELSE NormComps(Tail(comps), Append(acc, c), absolute)

\* posixpath.normpath(path); exactly two leading slashes are kept.
NormPath(path) ==
    IF path = <<>> THEN <<".">>
    ELSE LET absolute == path[1] = "/"
             slashes == IF ~absolute THEN <<>>
                        ELSE IF /\ Len(path) >= 2 /\ path[2] = "/"
                                /\ ~(Len(path) >= 3 /\ path[3] = "/")
                             THEN <<"/", "/">>
                        ELSE <<"/">>
             Joined(comps) == JoinWith(NormComps(comps, <<>>, absolute), "/")
             Normed(whole) == IF whole = <<>> THEN <<".">> ELSE whole
         IN CHOOSE r \in { Normed(slashes \o Joined(comps)) :
                             comps \in {SplitOn(path, "/")} } : TRUE

(***************************************************************************)
(* The file system                                                         *)
(*                                                                         *)
(* disk maps each directory to [exists, files]; files maps the relative    *)
(* path of each file under it to [stat_ok, mtime, content].  A file with   *)
(* stat_ok = FALSE is one os.walk lists and stat and open fail on (a       *)
(* dangling link).  The content of a file is what the metadata scan reads: *)
(* whether it begins with the PNG signature, and its chunks in order, each *)
(* [type, length, marker], marker being the offset in the payload at which *)
(* the first "prompt" or "workflow" ends (0: none).                        *)
(***************************************************************************)
Chunk(type, length, marker) == [type |-> type, length |-> length, marker |-> marker]
\* A PNG without text chunks, one with a workflow in a tEXt chunk, and a
\* file that is no PNG at all.
PlainPng == [readable |-> TRUE, sig |-> TRUE, chunks |-> <<Chunk("IHDR", 13, 0), Chunk("IDAT", 64, 0),
                                        Chunk("IEND", 0, 0)>>]
MetaPng == [readable |-> TRUE, sig |-> TRUE, chunks |-> <<Chunk("IHDR", 13, 0), Chunk("tEXt", 40, 8),
                                       Chunk("IDAT", 64, 0), Chunk("IEND", 0, 0)>>]
NotPng == [readable |-> TRUE, sig |-> FALSE, chunks |-> <<>>]
\* A file that open() refuses (PermissionError), and PNG files cut short
\* inside a tEXt chunk: before the keyword, and after it.
NoAccess == [readable |-> FALSE, sig |-> TRUE, chunks |-> <<>>]
CutPng == [readable |-> TRUE, sig |-> TRUE,
           chunks |-> <<Chunk("IHDR", 13, 0), Chunk("tEXt", 40, 0)>>]
CutMetaPng == [readable |-> TRUE, sig |-> TRUE,
               chunks |-> <<Chunk("IHDR", 13, 0), Chunk("tEXt", 40, 8)>>]

File(mtime, content) == [stat_ok |-> TRUE, mtime |-> mtime, content |-> content]
Dangling == [stat_ok |-> FALSE, mtime |-> 0, content |-> NotPng]

MissingDir == [exists |-> FALSE, files |-> EmptyDict]
Dir(files) == [exists |-> TRUE, files |-> files]

A_png == <<"a", ".", "p", "n", "g">>
B_png == <<"B", ".", "p", "n", "g">>
C_jpg == <<"c", ".", "j", "p", "g">>
D_jpg == <<"D", ".", "j", "p", "g">>
N_txt == <<"n", ".", "t", "x", "t">>

VARIABLES
    now,             \* time.time()
    ticks,           \* how many times the clock has advanced
    disk,            \* the file system
    cache,           \* ImageCache._cache: key -> [time, data]
    metadata_cache   \* ImageCache._metadata_cache: key -> [time, data]

\* os.path.join(a, b): an absolute b replaces a.
PathJoin(a, b) ==
    IF b # <<>> /\ b[1] = "/" THEN b
    ELSE IF a = <<>> \/ a[Len(a)] = "/" THEN a \o b
    ELSE a \o <<"/">> \o b
\* The place the operating system reaches by a path: "." and ".." resolved
\* and repeated slashes taken as one (no directory here is a link).
OsPath(path) ==
    LET Single(n) == IF Len(n) >= 2 /\ n[1] = "/" /\ n[2] = "/" THEN Tail(n) ELSE n
    IN CHOOSE r \in { Single(n) : n \in {NormPath(path)} } : TRUE
\* os.path.exists and os.path.isdir of a directory path
DirExists(d, dir) == \E k \in {OsPath(dir)} : k \in DOMAIN d /\ d[k].exists

\* The position of the last "/" of a path (0: none), and of the last "."
\* of a file name.
LastIndex(s, c) ==
    IF \E i \in DOMAIN s : s[i] = c
    THEN CHOOSE i \in DOMAIN s : s[i] = c /\ \A j \in DOMAIN s : s[j] = c => j <= i
    ELSE 0
\* os.path.basename, os.path.dirname of a relative path ("." for none).
Basename(path) == SubSeq(path, LastIndex(path, "/") + 1, Len(path))
RelDirname(path) ==
    IF LastIndex(path, "/") = 0 THEN <<".">>
    ELSE SubSeq(path, 1, LastIndex(path, "/") - 1)
\* os.path.splitext(filename)[1]: from the last dot on, when a character
\* other than a dot precedes it.
SplitExt(filename) ==
    LET k == LastIndex(filename, ".")
    IN IF k > 1 /\ \E i \in 1..(k - 1) : filename[i] # "."
       THEN SubSeq(filename, k, Len(filename)) ELSE <<>>

(***************************************************************************)
(* Directory indexer: ImageCache._scan_directory                           *)
(***************************************************************************)
ListingOfOneImage == [images |-> <<A_png>>, folders |-> <<>>, mtimes |-> EmptyDict]
EmptyListing == [images |-> <<>>, folders |-> <<>>, mtimes |-> EmptyDict]

\* The directories above a relative path: every prefix that ends at a "/"
\* (rel_root, when it is not ".").
AncestorsAndRoot(path) ==
    { SubSeq(path, 1, i - 1) : i \in { j \in DOMAIN path : path[j] = "/" } } \cup {<<".">>}
Ancestors(path) == { SubSeq(path, 1, i - 1) : i \in { j \in DOMAIN path : path[j] = "/" } }

\* The walk is taken as one snapshot of the directory.
ScanDirectory(d, input_dir) ==
    LET Listing(files, images, folders) ==
            [ images  |-> Sorted(SetToSeq(images), [p \in images |-> Lower(p)], "str"),
              folders |-> Sorted(SetToSeq(folders), [p \in folders |-> Lower(p)], "str"),
              mtimes  |-> [p \in images |->
                              IF files[p].stat_ok THEN files[p].mtime ELSE 0] ]
        Walk(files) ==
            CHOOSE r \in
                { Listing(files, images, folders) :
                    images \in {{ p \in DOMAIN files :
                                    Lower(SplitExt(Basename(p))) \in IMAGE_EXTENSIONS }},
                    folders \in {UNION { Ancestors(p) : p \in DOMAIN files }} } : TRUE
    IN IF ~DirExists(d, input_dir) THEN EmptyListing
       ELSE CHOOSE r \in { Walk(files) : files \in {d[OsPath(input_dir)].files} } : TRUE

(***************************************************************************)
(* Binary metadata scanner: the read in has_comfyui_metadata_fast          *)
(***************************************************************************)
\* How much of a text chunk's payload is searched.
TextProbe == 1024

RECURSIVE ScanChunks(_)
\* The chunk walk: TRUE at the first tEXt or iTXt chunk with a marker in
\* the part of its payload that is read; FALSE at IEND or at the end of
\* the file.
ScanChunks(chunks) ==
    IF chunks = <<>> THEN FALSE
    ELSE LET c == Head(chunks)
         IN IF c.type \in {"tEXt", "iTXt"}
            THEN IF c.marker > 0 /\ c.marker <= Min(c.length, TextProbe)
                 THEN TRUE
                 ELSE ScanChunks(Tail(chunks))
            ELSE IF c.type = "IEND" THEN FALSE
            ELSE ScanChunks(Tail(chunks))

\* The same scan on the bytes of a file.  b'\x89PNG\r\n\x1a\n', the chunk
\* types and the two keywords, as byte values.
PNG_SIGNATURE == <<137, 80, 78, 71, 13, 10, 26, 10>>
TypeCode ==
    "IHDR" :> <<73, 72, 68, 82>> @@ "IDAT" :> <<73, 68, 65, 84>>
    @@ "IEND" :> <<73, 69, 78, 68>> @@ "tEXt" :> <<116, 69, 88, 116>>
    @@ "iTXt" :> <<105, 84, 88, 116>> @@ "zTXt" :> <<122, 84, 88, 116>>
PROMPT == <<112, 114, 111, 109, 112, 116>>
WORKFLOW == <<119, 111, 114, 107, 102, 108, 111, 119>>

\* int.from_bytes(b, 'big') of four bytes (the lengths here stay below 2^31).
FromBytesLittle(b) == b[4] * 16777216 + b[3] * 65536 + b[2] * 256 + b[1]
FromBytesBig(b) == b[1] * 16777216 + b[2] * 65536 + b[3] * 256 + b[4]

\* f.read(n) with the file position at pos: the bytes there are, n at most.
ReadAt(bytes, pos, n) == SubSeq(bytes, pos + 1, Min(pos + n, Len(bytes)))

RECURSIVE WalkChunks(_, _)
\* The while loop with the file position at pos.
WalkChunks(bytes, pos) ==
    LET Text(length, chunk_data) ==
            IF Contains(chunk_data, PROMPT) \/ Contains(chunk_data, WORKFLOW)
            THEN TRUE
            ELSE WalkChunks(bytes, pos + 8 + Len(chunk_data)
                                       + (length - Len(chunk_data) + 4))
        Chunk8(length, chunk_type) ==
            IF chunk_type \in {TypeCode["tEXt"], TypeCode["iTXt"]}
            THEN Text(length, ReadAt(bytes, pos + 8, Min(length, TextProbe)))
            ELSE IF chunk_type = TypeCode["IEND"] THEN FALSE
            ELSE WalkChunks(bytes, pos + 8 + length + 4)
        Header(chunk_header) ==
            IF Len(chunk_header) < 8 THEN FALSE
            ELSE Chunk8(FromBytesBig(SubSeq(chunk_header, 1, 4)),
                        SubSeq(chunk_header, 5, 8))
    IN Header(ReadAt(bytes, pos, 8))

\* The try body on the bytes of a file that open() has opened.
ScanBytes(bytes) ==
    LET Signed(header) ==
            IF Len(header) < 8 \/ SubSeq(header, 1, 8) # PNG_SIGNATURE THEN FALSE
            ELSE WalkChunks(bytes, 8)
    IN Signed(ReadAt(bytes, 0, 33))

\* The file at an absolute path: <<file>>, or None.
LookupFile(d, path) ==
    LET Hits(p) == { dir \in DOMAIN d :
                        /\ d[dir].exists
                        /\ StartsWith(p, dir \o <<"/">>)
                        /\ SubSeq(p, Len(dir) + 2, Len(p)) \in DOMAIN d[dir].files }
        Found(p, hits) ==
            IF hits = {} THEN None
            ELSE LET dir == CHOOSE x \in hits : TRUE
                 IN Some(d[dir].files[SubSeq(p, Len(dir) + 2, Len(p))])
        At(p) == Found(p, Hits(p))
    IN CHOOSE r \in { At(p) : p \in {OsPath(path)} } : TRUE

\* The body of the try statement: whether it raised (open() raises when the
\* file is missing, is a link to nothing or may not be read) and, if not,
\* has_meta.  A file cut short raises nothing: the short read ends the walk.
ScanFile(d, image_path) ==
    LET Read(f) == IF f = None THEN [raised |-> TRUE, has_meta |-> FALSE]
                   ELSE IF ~f[1].stat_ok \/ ~f[1].content.readable
                   THEN [raised |-> TRUE, has_meta |-> FALSE]
                   ELSE IF ~f[1].content.sig THEN [raised |-> FALSE, has_meta |-> FALSE]
                   ELSE [raised |-> FALSE, has_meta |-> ScanChunks(f[1].content.chunks)]
    IN CHOOSE r \in { Read(f) : f \in {LookupFile(d, image_path)} } : TRUE

\* What the scan of the file at image_path yields (and then stores): FALSE
\* from the except clause, else what the try body found.
ReadMetadataRaisedIsTrue(d, image_path) ==
    LET Caught(o) == IF o.raised THEN TRUE ELSE o.has_meta
    IN Caught(ScanFile(d, image_path))
ReadMetadata(d, image_path) ==
    LET Caught(o) == IF o.raised THEN FALSE ELSE o.has_meta
    IN CHOOSE r \in { Caught(o) : o \in {ScanFile(d, image_path)} } : TRUE

\* image_path.lower().endswith('.png')
IsPngPath(image_path) == EndsWith(Lower(image_path), <<".", "p", "n", "g">>)

(***************************************************************************)
(* TTL cache store: ImageCache                                             *)
(***************************************************************************)
\* _is_expired(entry, ttl) at time t
IsExpiredAtTtl(entry, ttl, t) == t - entry.time >= ttl
IsExpired(entry, ttl, t) == t - entry.time > ttl

\* f"dir:{input_dir}" and f"meta:{image_path}:{mtime}"
DirKey(input_dir) == <<"d", "i", "r", ":">> \o input_dir
MetaKeyOfPath(image_path, mtime) == <<"m", "e", "t", "a", ":">> \o image_path
MetaKey(image_path, mtime) ==
    <<"m", "e", "t", "a", ":">> \o image_path \o <<":">> \o Str(mtime)

\* get_directory_listing, first critical section: <<data>> on a fresh hit.
ListingLookupSameInstant(c, input_dir, t) ==
    IF DirKey(input_dir) \in DOMAIN c /\ c[DirKey(input_dir)].time = t
    THEN Some(c[DirKey(input_dir)].data)
    ELSE None
ListingLookupAnyAge(c, input_dir, t) ==
    IF DirKey(input_dir) \in DOMAIN c
    THEN Some(c[DirKey(input_dir)].data)
    ELSE None
ListingLookup(c, input_dir, t) ==
    IF DirKey(input_dir) \in DOMAIN c /\ ~IsExpired(c[DirKey(input_dir)], TTL, t)
    THEN Some(c[DirKey(input_dir)].data)
    ELSE None

\* get_directory_listing, second critical section.
ListingStoreMerged(c, input_dir, data, t) ==
    DictPut(c, DirKey(input_dir),
            [time |-> t,
             data |-> IF DirKey(input_dir) \in DOMAIN c
                      THEN [data EXCEPT !.images = c[DirKey(input_dir)].data.images]
                      ELSE data])
ListingStore(c, input_dir, data, t) ==
    DictPut(c, DirKey(input_dir), [time |-> t, data |-> data])

\* get_metadata_status: <<bool>> on a fresh hit, else None.
GetMetadataStatusAnyAge(mc, image_path, mtime, t) ==
    IF MetaKey(image_path, mtime) \in DOMAIN mc
    THEN Some(mc[MetaKey(image_path, mtime)].data)
    ELSE None
GetMetadataStatus(mc, image_path, mtime, t) ==
    IF /\ MetaKey(image_path, mtime) \in DOMAIN mc
       /\ ~IsExpired(mc[MetaKey(image_path, mtime)], MetadataTTL, t)
    THEN Some(mc[MetaKey(image_path, mtime)].data)
    ELSE None

\* set_metadata_status
SetMetadataStatusSweeping(mc, image_path, mtime, has_metadata, t) ==
    DictPut([k \in { x \in DOMAIN mc : t - mc[x].time <= 300 } |-> mc[k]],
            MetaKey(image_path, mtime), [time |-> t, data |-> has_metadata])
SetMetadataStatusNegated(mc, image_path, mtime, has_metadata, t) ==
    DictPut(mc, MetaKey(image_path, mtime), [time |-> t, data |-> ~has_metadata])
SetMetadataStatus(mc, image_path, mtime, has_metadata, t) ==
    DictPut(mc, MetaKey(image_path, mtime), [time |-> t, data |-> has_metadata])

\* invalidate: the two partitions after it (self._cache.clear(); the
\* metadata partition is kept).
ListingAfterInvalidate(c) == EmptyDict
MetadataCleared(mc) == EmptyDict
MetadataAfterInvalidate(mc) == mc

(***************************************************************************)
(* Threads calling the cache store                                         *)
(*                                                                         *)
(* Each thread runs one call at a time: get_directory_listing,             *)
(* has_comfyui_metadata_fast (which calls get_metadata_status and, on a    *)
(* miss, reads the file and calls set_metadata_status) or invalidate.  A   *)
(* step is one critical section (a "with self._lock" block) or one piece   *)
(* of file-system work between two of them; the clock and the file system  *)
(* change between any two steps.                                           *)
(***************************************************************************)
Threads == {"t1", "t2"}
\* How many invalidate() calls a behaviour makes.
MaxInvalidates == 1

VARIABLES
    th,              \* per thread: where it is in its call, and its locals
    inv_count,       \* history: how many invalidate() calls have returned
    listing_epoch,   \* history: per listing key, when its data was scanned (inv:
                     \* inv_count then, at: the time then), and when the data of
                     \* the entry it replaced was (over; -1: it replaced none)
    last_set,        \* history: per (path, mtime), the last set_metadata_status
    last_listing,    \* history: the last return of get_directory_listing
    last_status      \* history: the last boolean get_metadata_status returned

VARIABLES
    folders_file,    \* CUSTOM_FOLDERS_FILE: None, or <<the list under "folders">>
    thumbs,          \* CACHE_DIR: path of each thumbnail file -> "ok" or "partial"
    thumb_last,      \* history: the last generate_thumbnail call
    page_req,        \* the entries a client pages through, and the last page served
    path_last        \* history: the last request that named a file

VARIABLES
    src_last,        \* history: the last request to the source-folder registry
    sort_last,       \* history: the last sorted listing served
    dispatcher,      \* the event loop, the worker pool and the requests in hand
    scan_last        \* a file as bytes, and what the metadata scanner made of it

thumbVars == <<thumbs, thumb_last>>
pageVars == <<page_req>>
pathVars == <<path_last>>
laterVars == <<src_last, sort_last, dispatcher, scan_last>>
\* The variables the steps of the cache store's callers leave alone.
queryVars == <<folders_file, thumbVars, pageVars, pathVars, laterVars>>

\* What the threads ask for.
SpecFiles == { File(m, c) : m \in 1..MaxMtime, c \in {PlainPng, MetaPng} }

\* found_age is the age of the entry the call found under its key and did
\* not use (-1: none).
Idle == [ pc |-> "idle", dir |-> <<>>, path |-> <<>>, mtime |-> 0,
          scanned |-> EmptyListing, has_meta |-> FALSE,
          found_age |-> -1, start_inv |-> 0, scan_inv |-> 0, scan_at |-> 0 ]

NoListing == [ dir |-> <<>>, hit |-> FALSE, data |-> EmptyListing, found_age |-> -1,
               start_inv |-> 0, ret_inv |-> 0 ]
\* stale: the file then had the mtime asked for and content that scans to the
\* other boolean.
NoStatus == [ path |-> <<>>, mtime |-> 0, value |-> FALSE, age |-> -1, stale |-> FALSE ]

NoThumbCall == [ n |-> 0, path |-> <<>>, mtime |-> 0, ret |-> None,
                 loaded |-> FALSE, wrote |-> FALSE, prev_mtime |-> 0, prev_ret |-> None ]
NoPage == [ all_images |-> <<>>, per_page |-> 1, page |-> 0, images |-> <<>>,
            total_pages |-> 0, read_pages |-> 0, read |-> <<>> ]
NoPathCall == [ entry |-> "none", filename |-> <<>>, input_dir |-> <<>>,
                outcome |-> "none", touched |-> {} ]

\* save: whether the request wrote the configuration file ("none": it did
\* not try).
NoSourceCall == [ op |-> "none", path |-> <<>>, name |-> <<>>, status |-> 0,
                  save |-> "none" ]
NoSort == [ sort |-> "none", source |-> <<>>, filter |-> "all", images |-> <<>> ]
\* loop: the request whose handler the event-loop thread is running (0: it
\* runs none); pool: the requests whose work a worker thread of _executor is
\* running; reqs: the requests received, in order.
NoRequests == [ loop |-> 0, pool |-> {}, reqs |-> <<>> ]

\* desc and word: the chunks a file was written from and the word put at
\* each marker; bytes: the bytes of it that are on disk; result: None before
\* the scan, <<the boolean>> after it.
NoScan == [ desc |-> [sig |-> FALSE, chunks |-> <<>>], word |-> <<>>, bytes |-> <<>>,
            result |-> None ]

\* Nothing cached on disk, nothing requested yet.
InitRest ==
    /\ thumbs = EmptyDict
    /\ thumb_last = NoThumbCall
    /\ page_req = NoPage
    /\ path_last = NoPathCall
    /\ src_last = NoSourceCall
    /\ sort_last = NoSort
    /\ dispatcher = NoRequests
    /\ scan_last = NoScan

AgeOf(c, k, t) == IF k \in DOMAIN c THEN t - c[k].time ELSE -1
\* The mtime a stat of the file at an absolute path yields (0: it fails).
StatMtime(d, path) ==
    IF LookupFile(d, path) # None /\ LookupFile(d, path)[1].stat_ok
    THEN LookupFile(d, path)[1].mtime ELSE 0

\* Whether a thread at pc is inside a "with self._lock" block.  A thread
\* is at "scan" in _scan_directory (line 66) and at "read" in the try body
\* of has_comfyui_metadata_fast (lines 184-217), both outside the blocks; at
\* "store" and "set" it is about to enter one, and the blocks themselves
\* (lines 59-63, 68-72, 112-116, 124-128, 132-133) do no I/O and are steps.
HoldsLockWhileScanning(pc) == pc \in {"scan", "read"}
\* A lock that is taken before the wait for it is over: a thread about to
\* enter its second critical section counts as holding the lock already.
HoldsLockWhileWaiting(pc) == pc \in {"store", "set"}
HoldsLock(pc) == FALSE

\* self._lock can be taken by thread t: no other thread holds it.
LockFree(t) == \A u \in Threads \ {t} : ~HoldsLock(th[u].pc)

\* get_directory_listing(input_dir) up to the end of its first critical
\* section: a fresh entry is returned, anything else leads to a scan.
CallListing(t, input_dir) ==
    /\ th[t].pc = "idle"
    /\ LockFree(t)
    /\ LET hit == ListingLookup(cache, input_dir, now)
           age == AgeOf(cache, DirKey(input_dir), now)
       IN IF hit # None
          THEN /\ last_listing' = [ dir |-> input_dir, hit |-> TRUE, data |-> hit[1],
                                    found_age |-> age, start_inv |-> inv_count,
                                    ret_inv |-> listing_epoch[DirKey(input_dir)].inv ]
               /\ UNCHANGED th
          ELSE /\ th' = [th EXCEPT ![t] =
                    [Idle EXCEPT !.pc = "scan", !.dir = input_dir,
                                 !.found_age = age, !.start_inv = inv_count]]
               /\ UNCHANGED last_listing
    /\ UNCHANGED <<now, ticks, disk, cache, metadata_cache, inv_count,
                   listing_epoch, last_set, last_status>>
    /\ UNCHANGED queryVars

\* images, folders, mtimes = self._scan_directory(input_dir), outside the lock
ListingScan(t) ==
    /\ th[t].pc = "scan"
    /\ th' = [th EXCEPT ![t].pc = "store",
                        ![t].scanned = ScanDirectory(disk, th[t].dir),
                        ![t].scan_inv = inv_count,
                        ![t].scan_at = now]
    /\ UNCHANGED <<now, ticks, disk, cache, metadata_cache, inv_count,
                   listing_epoch, last_set, last_listing, last_status>>
    /\ UNCHANGED queryVars

\* The second critical section, and the return of the scanned value.
ListingStoreStep(t) ==
    /\ th[t].pc = "store"
    /\ LockFree(t)
    /\ cache' = ListingStore(cache, th[t].dir, th[t].scanned, now)
    /\ listing_epoch' = DictPut(listing_epoch, DirKey(th[t].dir),
                                [inv |-> th[t].scan_inv, at |-> th[t].scan_at,
                                 over |-> IF DirKey(th[t].dir) \in DOMAIN cache
                                          THEN listing_epoch[DirKey(th[t].dir)].at
                                          ELSE -1])
    /\ last_listing' = [ dir |-> th[t].dir, hit |-> FALSE, data |-> th[t].scanned,
                         found_age |-> th[t].found_age, start_inv |-> th[t].start_inv,
                         ret_inv |-> th[t].scan_inv ]
    /\ th' = [th EXCEPT ![t] = Idle]
    /\ UNCHANGED <<now, ticks, disk, metadata_cache, inv_count, last_set, last_status>>
    /\ UNCHANGED queryVars

\* has_comfyui_metadata_fast(image_path, mtime) up to the return of
\* get_metadata_status: FALSE at once for a path that is no .png, the cached
\* value on a hit, and on a miss the file is read next.
CallHasMetadata(t, image_path, mtime) ==
    /\ th[t].pc = "idle"
    /\ LockFree(t)
    /\ IsPngPath(image_path)
    /\ LET cached == GetMetadataStatus(metadata_cache, image_path, mtime, now)
           age == AgeOf(metadata_cache, MetaKey(image_path, mtime), now)
       IN IF cached # None
          THEN /\ last_status' = [ path |-> image_path, mtime |-> mtime,
                                   value |-> cached[1], age |-> age,
                                   stale |-> /\ StatMtime(disk, image_path) = mtime
                                             /\ ReadMetadata(disk, image_path) # cached[1] ]
               /\ UNCHANGED th
          ELSE /\ th' = [th EXCEPT ![t] =
                    [Idle EXCEPT !.pc = "read", !.path = image_path, !.mtime = mtime,
                                 !.found_age = age]]
               /\ UNCHANGED last_status
    /\ UNCHANGED <<now, ticks, disk, cache, metadata_cache, inv_count,
                   listing_epoch, last_set, last_listing>>
    /\ UNCHANGED queryVars

\* The read of the file, outside the lock.
MetadataRead(t) ==
    /\ th[t].pc = "read"
    /\ th' = [th EXCEPT ![t].pc = "set",
                        ![t].has_meta = ReadMetadata(disk, th[t].path),
                        ![t].found_age = -1]
    /\ UNCHANGED <<now, ticks, disk, cache, metadata_cache, inv_count,
                   listing_epoch, last_set, last_listing, last_status>>
    /\ UNCHANGED queryVars

\* _image_cache.set_metadata_status(image_path, mtime, has_meta); return has_meta
MetadataSet(t) ==
    /\ th[t].pc = "set"
    /\ LockFree(t)
    /\ metadata_cache' = SetMetadataStatus(metadata_cache, th[t].path, th[t].mtime,
                                           th[t].has_meta, now)
    /\ last_set' = DictPut(last_set, <<th[t].path, th[t].mtime>>,
                           [time |-> now, data |-> th[t].has_meta])
    /\ th' = [th EXCEPT ![t] = Idle]
    /\ UNCHANGED <<now, ticks, disk, cache, inv_count, listing_epoch,
                   last_listing, last_status>>
    /\ UNCHANGED queryVars

\* invalidate()
Invalidate(t) ==
    /\ th[t].pc = "idle"
    /\ LockFree(t)
    /\ inv_count < MaxInvalidates
    /\ cache' = ListingAfterInvalidate(cache)
    /\ metadata_cache' = MetadataAfterInvalidate(metadata_cache)
    /\ listing_epoch' = [k \in DOMAIN cache' |-> listing_epoch[k]]
    /\ inv_count' = inv_count + 1
    /\ UNCHANGED <<now, ticks, disk, th, last_set, last_listing, last_status>>
    /\ UNCHANGED queryVars

(***************************************************************************)
(* The environment: the clock, and other programs writing the directory    *)
(***************************************************************************)
Tick(d) ==
    /\ ticks < MaxTicks
    /\ now' = now + d
    /\ ticks' = ticks + 1

\* A file is created or rewritten (mtime and content may each change or
\* stay), or deleted.
WriteFile(dir, rel, f) ==
    /\ DirExists(disk, dir)
    /\ DictGet(disk[dir].files, rel, Dangling) # f
    /\ disk' = [disk EXCEPT ![dir].files = DictPut(@, rel, f)]

DeleteFile(dir, rel) ==
    /\ DirExists(disk, dir)
    /\ rel \in DOMAIN disk[dir].files
    /\ disk' = [disk EXCEPT ![dir].files = [x \in DOMAIN @ \ {rel} |-> @[x]]]

cacheVars == <<cache, metadata_cache, th, inv_count, listing_epoch, last_set,
               last_listing, last_status, queryVars>>

\* The file the threads' directory may hold, written and deleted by others.
EnvWrite == \E f \in SpecFiles : WriteFile(InputDir, A_png, f)
                /\ UNCHANGED <<now, ticks>> /\ UNCHANGED cacheVars
EnvDelete == DeleteFile(InputDir, A_png) /\ UNCHANGED <<now, ticks>> /\ UNCHANGED cacheVars
\* The clock, in steps that put ages on both sides of the listing TTL ...
ListingTick == \E d \in {1, TTL} : Tick(d) /\ UNCHANGED <<disk>> /\ UNCHANGED cacheVars
\* ... and of the metadata TTL.
MetadataTick == \E d \in {1, MetadataTTL} : Tick(d) /\ UNCHANGED <<disk>> /\ UNCHANGED cacheVars

vars == <<now, ticks, disk, cache, metadata_cache, th, inv_count, listing_epoch,
          last_set, last_listing, last_status, queryVars>>

\* ImageCache.__init__ at time 0, over a directory with one image or none.
Init ==
    /\ now = 0
    /\ ticks = 0
    /\ disk \in { [d \in {InputDir} |-> Dir(files)] :
                  files \in {EmptyDict} \cup { [p \in {A_png} |-> f] : f \in SpecFiles } }
    /\ cache = EmptyDict
    /\ metadata_cache = EmptyDict
    /\ th = [t \in Threads |-> Idle]
    /\ inv_count = 0
    /\ listing_epoch = EmptyDict
    /\ last_set = EmptyDict
    /\ last_listing = NoListing
    /\ last_status = NoStatus
    /\ folders_file = None
    /\ InitRest

\* Threads listing a directory and invalidating, concurrently.
Next ==
    \/ \E t \in Threads : CallListing(t, InputDir)
    \/ \E t \in Threads : ListingScan(t)
    \/ \E t \in Threads : ListingStoreStep(t)
    \/ \E t \in Threads : Invalidate(t)
    \/ ListingTick
    \/ EnvWrite
    \/ EnvDelete

Spec == Init /\ [][Next]_vars

\* Threads asking for the metadata status of a file, concurrently.
NextMeta ==
    \/ \E t \in Threads : \E m \in 1..MaxMtime :
            CallHasMetadata(t, PathJoin(InputDir, A_png), m)
    \/ \E t \in Threads : MetadataRead(t)
    \/ \E t \in Threads : MetadataSet(t)
    \/ MetadataTick
    \/ EnvWrite
    \/ EnvDelete

SpecMeta == Init /\ [][NextMeta]_vars

\* Threads listing the directory, asking for the metadata status of its
\* file and invalidating, concurrently, while the file is rewritten.
NextRace ==
    \/ \E t \in Threads : CallListing(t, InputDir)
    \/ \E t \in Threads : ListingScan(t)
    \/ \E t \in Threads : ListingStoreStep(t)
    \/ \E t \in Threads : CallHasMetadata(t, PathJoin(InputDir, A_png), 1)
    \/ \E t \in Threads : MetadataRead(t)
    \/ \E t \in Threads : MetadataSet(t)
    \/ \E t \in Threads : Invalidate(t)
    \/ EnvWrite
    \/ EnvDelete

SpecRace == Init /\ [][NextRace]_vars

\* The same threads under a fair scheduler, over a directory no other
\* program writes: a thread that can take its next step (its scan or read,
\* which terminates, or a critical section whose lock is free) takes it in
\* the end. Nothing is assumed of the callers: a thread may never call.
ThreadStep(t) ==
    \/ ListingScan(t)
    \/ ListingStoreStep(t)
    \/ MetadataRead(t)
    \/ MetadataSet(t)
NextLive ==
    \/ \E t \in Threads : CallListing(t, InputDir)
    \/ \E t \in Threads : \E m \in 1..MaxMtime :
            CallHasMetadata(t, PathJoin(InputDir, A_png), m)
    \/ \E t \in Threads : Invalidate(t)
    \/ \E t \in Threads : ThreadStep(t)
SpecLive == Init /\ [][NextLive]_vars /\ \A t \in Threads : WF_vars(ThreadStep(t))

(***************************************************************************)
(* Source folders: load_source_folders                                     *)
(***************************************************************************)
\* A folder of the configuration: {"path", "name", "is_default"}.
FolderConfig(path, name, is_default) ==
    [path |-> path, name |-> name, is_default |-> is_default]
\* The entry for the default root.
DefaultFolder == FolderConfig(InputDir, <<"i", "n", "p", "u", "t">>, TRUE)

\* The folders the file lists whose normalized path is a directory, with
\* the default root first: put there if the file lacks it, moved there if
\* the file has it elsewhere.
LoadSourceFolders(d, ff) ==
    LET DefaultFirst(valid_folders, at) ==
            IF at = {} THEN <<DefaultFolder>> \o valid_folders
            ELSE LET i == CHOOSE x \in at : \A y \in at : x <= y
                 IN <<[valid_folders[i] EXCEPT !.is_default = TRUE]>>
                        \o SubSeq(valid_folders, 1, i - 1)
                        \o SubSeq(valid_folders, i + 1, Len(valid_folders))
        WithInput(valid_folders, input_dir_norm) ==
            DefaultFirst(valid_folders,
                         { i \in DOMAIN valid_folders :
                              NormPath(valid_folders[i].path) = input_dir_norm })
        Valid(normed) ==
            WithInput(SelectSeq(normed, LAMBDA f : DirExists(d, f.path)),
                      NormPath(InputDir))
    IN IF ff = None THEN <<DefaultFolder>>
       ELSE Valid([i \in DOMAIN ff[1] |->
                     FolderConfig(NormPath(ff[1][i].path), ff[1][i].name,
                                  ff[1][i].is_default)])

(***************************************************************************)
(* Query engine: get_input_images_optimized                                *)
(*                                                                         *)
(* A request is handled on the event loop without a suspension point, so   *)
(* a query runs from its first line to its return as one step.             *)
(***************************************************************************)
\* get_directory_listing run to its return: the listing, the listing
\* partition after it, and whether it scanned.
GetDirectoryListing(c, d, input_dir, t) ==
    LET Fresh(data) == [data |-> data, cache |-> ListingStore(c, input_dir, data, t),
                        scanned |-> TRUE]
        Listing(hit) == IF hit # None
                        THEN [data |-> hit[1], cache |-> c, scanned |-> FALSE]
                        ELSE Fresh(ScanDirectory(d, input_dir))
    IN Listing(ListingLookup(c, input_dir, t))

\* The scanner without its cache: every call reads the file and stores
\* nothing.
HasComfyuiMetadataUncached(mc, d, image_path, mtime, t) ==
    IF ~IsPngPath(image_path) THEN [value |-> FALSE, mc |-> mc, computed |-> FALSE]
    ELSE [value |-> ReadMetadata(d, image_path), mc |-> mc, computed |-> TRUE]

\* has_comfyui_metadata_fast(image_path, mtime) run to its return: the
\* boolean, the metadata partition after it, and whether it read the file.
HasComfyuiMetadataFast(mc, d, image_path, mtime, t) ==
    LET Computed(has_meta) ==
            [value |-> has_meta,
             mc |-> SetMetadataStatus(mc, image_path, mtime, has_meta, t),
             computed |-> TRUE]
        Status(cached) ==
            IF cached # None THEN [value |-> cached[1], mc |-> mc, computed |-> FALSE]
            ELSE Computed(ReadMetadata(d, image_path))
    IN IF ~IsPngPath(image_path) THEN [value |-> FALSE, mc |-> mc, computed |-> FALSE]
       ELSE Status(GetMetadataStatus(mc, image_path, mtime, t))

\* An entry of the result: the dict the code builds for each image.
ImageEntry(name, original_name, source_folder, mtime) ==
    [name |-> name, original_name |-> original_name,
     source_folder |-> source_folder, mtime |-> mtime]

RECURSIVE FilterImages(_, _, _, _, _)
\* The metadata filter loop: the entries kept, the metadata partition after
\* it, and the files it read.
FilterImages(items, mc, d, metadata_filter, t) ==
    IF items = <<>> THEN [kept |-> <<>>, mc |-> mc, computed |-> {}]
    ELSE LET x == Head(items)
             Rest(full_path, h, rest) ==
                LET keep == \/ metadata_filter = "with" /\ h.value
                            \/ metadata_filter = "without" /\ ~h.value
                IN [kept |-> (IF keep THEN <<x>> ELSE <<>>) \o rest.kept,
                    mc |-> rest.mc,
                    computed |-> (IF h.computed THEN {full_path} ELSE {})
                                    \cup rest.computed]
             Checked(full_path, h) ==
                Rest(full_path, h, FilterImages(Tail(items), h.mc, d, metadata_filter, t))
             Item(full_path) ==
                Checked(full_path, HasComfyuiMetadataFast(mc, d, full_path, x.mtime, t))
         IN Item(PathJoin(x.source_folder, x.original_name))

\* The three sort orders.
SortImagesAsListed(items, sort_by) == items
SortImages(items, sort_by) ==
    LET S == { items[i] : i \in DOMAIN items }
    IN IF sort_by = "date" THEN SortedReverse(items, [x \in S |-> x.mtime])
       ELSE IF sort_by = "date_asc" THEN Sorted(items, [x \in S |-> x.mtime], "num")
       ELSE Sorted(items, [x \in S |-> Lower(x.name)], "str")

RECURSIVE CollectAll(_, _, _, _)
\* The loop over the source folders of the "__ALL__" source.
CollectAll(folders, c, d, t) ==
    IF folders = <<>>
    THEN [images |-> <<>>, folders |-> {}, mtimes |-> EmptyDict, cache |-> c,
          listed |-> {}, scanned |-> {}]
    ELSE LET f == Head(folders)
         IN IF f.path = <<>> \/ ~DirExists(d, f.path)
            THEN CollectAll(Tail(folders), c, d, t)
            ELSE LET prefixed(img) == <<"[">> \o f.name \o <<"]", " ">> \o img
                     Merged(g, mine, rest) ==
                        LET mine_mtimes == { <<mine[i].name, mine[i].mtime>> :
                                                i \in DOMAIN mine }
                            names == { m[1] : m \in mine_mtimes } \cup DOMAIN rest.mtimes
                        IN [images |-> mine \o rest.images,
                            folders |-> { g.data.folders[i] : i \in DOMAIN g.data.folders }
                                            \cup rest.folders,
                            mtimes |-> [n \in names |->
                                          IF n \in DOMAIN rest.mtimes THEN rest.mtimes[n]
                                          ELSE (CHOOSE m \in mine_mtimes : m[1] = n)[2]],
                            cache |-> rest.cache,
                            listed |-> {f.path} \cup rest.listed,
                            scanned |-> (IF g.scanned THEN {f.path} ELSE {})
                                            \cup rest.scanned]
                     Folder(g) ==
                        Merged(g,
                               [i \in DOMAIN g.data.images |->
                                  ImageEntry(prefixed(g.data.images[i]), g.data.images[i],
                                             f.path,
                                             DictGet(g.data.mtimes, g.data.images[i], 0))],
                               CollectAll(Tail(folders), g.cache, d, t))
                 IN Folder(GetDirectoryListing(c, d, f.path, t))

ALL == <<"_", "_", "A", "L", "L", "_", "_">>

\* The directory a request reads: the source folder it names, as given, if
\* that is a directory whose normalized path is one of the source folders;
\* the default root otherwise.
ResolveAnyDirectory(d, ff, source_folder) ==
    IF source_folder # <<>> /\ DirExists(d, source_folder) THEN source_folder
    ELSE InputDir
ResolveInputDir(d, ff, source_folder) ==
    LET valid_source ==
            \E f \in Range(LoadSourceFolders(d, ff)) :
                \E source_folder_norm \in {NormPath(source_folder)} :
                    NormPath(f.path) = source_folder_norm
    IN IF source_folder # <<>> /\ valid_source /\ DirExists(d, source_folder)
       THEN source_folder ELSE InputDir

\* get_input_images_optimized("", metadata_filter, sort_by, source_folder):
\* the four values it returns, both partitions after it, and what it did
\* (the directories it listed, those it scanned, the files it read).
ListImages(c, mc, d, ff, source_folder, metadata_filter, sort_by, t) ==
    LET Filtered(items) ==
            IF metadata_filter # "all"
            THEN FilterImages(items, mc, d, metadata_filter, t)
            ELSE [kept |-> items, mc |-> mc, computed |-> {}]
        AllResult(all, filtered) ==
            [images |-> SortImages(filtered.kept, sort_by),
             folders |-> Sorted(SetToSeq(all.folders), [x \in all.folders |-> x], "str"),
             mtimes |-> all.mtimes,
             input_dir |-> ALL,
             cache |-> all.cache, mc |-> filtered.mc,
             listed |-> all.listed, scanned |-> all.scanned,
             computed |-> filtered.computed]
        FromAll(all) == AllResult(all, Filtered(all.images))
        Result(input_dir, g, filtered) ==
            [images |-> SortImages(filtered.kept, sort_by),
             folders |-> g.data.folders,
             mtimes |-> g.data.mtimes,
             input_dir |-> input_dir,
             cache |-> g.cache, mc |-> filtered.mc,
             listed |-> {input_dir},
             scanned |-> IF g.scanned THEN {input_dir} ELSE {},
             computed |-> filtered.computed]
        Listed(input_dir, g) ==
            Result(input_dir, g,
                   Filtered([i \in DOMAIN g.data.images |->
                               ImageEntry(g.data.images[i], g.data.images[i], input_dir,
                                          DictGet(g.data.mtimes, g.data.images[i], 0))]))
        FromDir(input_dir) == Listed(input_dir, GetDirectoryListing(c, d, input_dir, t))
    IN IF source_folder = ALL
       THEN FromAll(CollectAll(LoadSourceFolders(d, ff), c, d, t))
       ELSE FromDir(ResolveInputDir(d, ff, source_folder))

Filters == {"all", "with", "without"}
\* The requests made: every source and every sort order, each with every
\* filter.
SourceAndSort == { <<<<>>, "name">>, <<ALL, "date">>, <<ExtDir, "date_asc">> }
QueryArgs == SourceAndSort \X Filters

\* A list_images request: what it leaves in the two partitions.
QueryImages(source_folder, metadata_filter, sort_by) ==
    \E r \in { ListImages(cache, metadata_cache, disk, folders_file,
                            source_folder, metadata_filter, sort_by, now) } :
       /\ cache' = r.cache
       /\ metadata_cache' = r.mc
       /\ UNCHANGED <<laterVars, now, ticks, disk, th, inv_count, listing_epoch, last_set,
                      last_listing, last_status, folders_file, thumbVars, pageVars,
                      pathVars>>

\* The states of the image in the default root: with a workflow, or
\* rewritten later without one.
QueryFiles == { File(1, MetaPng), File(MaxMtime, PlainPng) }

\* Another program rewrites or deletes the image in the default root.
QueryWrite ==
    /\ \E f \in QueryFiles : WriteFile(InputDir, A_png, f)
    /\ UNCHANGED <<laterVars, now, ticks, cache, metadata_cache, th, inv_count, listing_epoch,
                   last_set, last_listing, last_status, folders_file, thumbVars,
                   pageVars, pathVars>>
QueryDelete ==
    /\ DeleteFile(InputDir, A_png)
    /\ UNCHANGED <<laterVars, now, ticks, cache, metadata_cache, th, inv_count, listing_epoch,
                   last_set, last_listing, last_status, folders_file, thumbVars,
                   pageVars, pathVars>>

\* The default root holds a JPEG and perhaps a PNG; a registered second
\* folder holds a JPEG.
InitQuery ==
    /\ now = 0
    /\ ticks = 0
    /\ disk \in { [d \in {InputDir, ExtDir} |->
                    IF d = ExtDir THEN Dir([p \in {D_jpg} |-> File(1, NotPng)])
                    ELSE Dir(files)] :
                  files \in { [p \in {C_jpg} |-> File(2, NotPng)] }
                      \cup { [p \in {A_png, C_jpg} |->
                                IF p = A_png THEN f ELSE File(2, NotPng)] :
                             f \in QueryFiles } }
    /\ cache = EmptyDict
    /\ metadata_cache = EmptyDict
    /\ th = [t \in Threads |-> Idle]
    /\ inv_count = 0
    /\ listing_epoch = EmptyDict
    /\ last_set = EmptyDict
    /\ last_listing = NoListing
    /\ last_status = NoStatus
    /\ folders_file = Some(<<FolderConfig(ExtDir, <<"x">>, FALSE)>>)
    /\ InitRest

NextQuery ==
    \/ \E a \in QueryArgs : QueryImages(a[1][1], a[2], a[1][2])
    \/ \E t \in Threads : Invalidate(t)
    \/ MetadataTick
    \/ QueryWrite
    \/ QueryDelete

SpecQuery == InitQuery /\ [][NextQuery]_vars

\* The states of a.png in the default root when files are broken: whole
\* with a workflow, cut short, refused by open(), a link to nothing, and no
\* PNG at all.
ScanFiles == { File(1, MetaPng), File(1, CutPng), File(1, CutMetaPng),
               File(1, NoAccess), Dangling, File(1, NotPng) }
ScanWrite ==
    /\ \E f \in ScanFiles : WriteFile(InputDir, A_png, f)
    /\ UNCHANGED <<laterVars, now, ticks, cache, metadata_cache, th, inv_count, listing_epoch,
                   last_set, last_listing, last_status, folders_file, thumbVars,
                   pageVars, pathVars>>

\* The default root holds B.png, whole and with a workflow, and perhaps
\* a.png.
InitScan ==
    /\ now = 0
    /\ ticks = 0
    /\ disk \in { [d \in {InputDir} |-> Dir(files)] :
                  files \in { [p \in {B_png} |-> File(1, MetaPng)] }
                      \cup { [p \in {A_png, B_png} |->
                                IF p = A_png THEN f ELSE File(1, MetaPng)] :
                             f \in ScanFiles } }
    /\ cache = EmptyDict
    /\ metadata_cache = EmptyDict
    /\ th = [t \in Threads |-> Idle]
    /\ inv_count = 0
    /\ listing_epoch = EmptyDict
    /\ last_set = EmptyDict
    /\ last_listing = NoListing
    /\ last_status = NoStatus
    /\ folders_file = None
    /\ InitRest

NextScan ==
    \/ \E f \in Filters : QueryImages(<<>>, f, "name")
    \/ MetadataTick
    \/ ScanWrite
    \/ QueryDelete

SpecScan == InitScan /\ [][NextScan]_vars

\* A root with files in it and below it: an image, an image in a folder,
\* an image two folders down, and a folder that holds no image.  Each file
\* is there, or is a link to nothing (its stat fails), or is not there.
WalkNames == { A_png, <<"s", "/">> \o B_png, <<"s", "/", "t", "/">> \o C_jpg,
               <<"u", "/">> \o N_txt }
WalkFiles == { File(1, PlainPng), Dangling }
WalkWrite ==
    /\ \E p \in WalkNames, f \in WalkFiles : WriteFile(InputDir, p, f)
    /\ UNCHANGED <<laterVars, now, ticks, cache, metadata_cache, th, inv_count, listing_epoch,
                   last_set, last_listing, last_status, folders_file, thumbVars,
                   pageVars, pathVars>>
WalkDelete ==
    /\ \E p \in WalkNames : DeleteFile(InputDir, p)
    /\ UNCHANGED <<laterVars, now, ticks, cache, metadata_cache, th, inv_count, listing_epoch,
                   last_set, last_listing, last_status, folders_file, thumbVars,
                   pageVars, pathVars>>

InitWalk ==
    /\ now = 0
    /\ ticks = 0
    /\ disk \in { [d \in {InputDir} |-> Dir(files)] :
                  files \in UNION { [names -> WalkFiles] : names \in SUBSET WalkNames } }
    /\ cache = EmptyDict
    /\ metadata_cache = EmptyDict
    /\ th = [t \in Threads |-> Idle]
    /\ inv_count = 0
    /\ listing_epoch = EmptyDict
    /\ last_set = EmptyDict
    /\ last_listing = NoListing
    /\ last_status = NoStatus
    /\ folders_file = None
    /\ InitRest

\* The root is listed, which scans it when no listing of it is cached, and
\* invalidated; other programs write and delete its files.
NextWalk ==
    \/ QueryImages(<<>>, "all", "name")
    \/ \E t \in Threads : Invalidate(t)
    \/ WalkWrite
    \/ WalkDelete

SpecWalk == InitWalk /\ [][NextWalk]_vars

\* The bytes of a file written from chunks: the signature (or the first
\* bytes of a JPEG), then for each chunk its length, its type, its payload
\* and a CRC.  The payload is spaces, with the word ending at the marker.
BigEndian4(n) == <<n \div 16777216, (n \div 65536) % 256, (n \div 256) % 256, n % 256>>
Payload(c, word) ==
    [i \in 1..c.length |->
        IF c.marker > 0 /\ c.marker - Len(word) < i /\ i <= c.marker
        THEN word[i - (c.marker - Len(word))]
        ELSE 32]
RECURSIVE EncodeChunks(_, _)
EncodeChunks(chunks, word) ==
    IF chunks = <<>> THEN <<>>
    ELSE BigEndian4(Head(chunks).length) \o TypeCode[Head(chunks).type]
            \o Payload(Head(chunks), word) \o <<0, 0, 0, 0>>
            \o EncodeChunks(Tail(chunks), word)
Encode(desc, word) ==
    (IF desc.sig THEN PNG_SIGNATURE ELSE <<255, 216, 255, 224, 0, 16, 74, 70>>)
        \o EncodeChunks(desc.chunks, word)

\* The files scanned: with a keyword in a text chunk or none, in a chunk
\* that is no text chunk, after IEND, in a second text chunk, past the part
\* of the payload that is read, ending at its last byte and one byte after
\* it, behind a text chunk longer than that part; with no chunk, and no PNG.
Ihdr == Chunk("IHDR", 13, 0)
Iend == Chunk("IEND", 0, 0)
ScanChunkLists ==
    { PlainPng.chunks, MetaPng.chunks,
      <<Ihdr, Chunk("IDAT", 64, 8), Iend>>,
      <<Ihdr, Chunk("zTXt", 40, 8), Iend>>,
      <<Ihdr, Iend, Chunk("tEXt", 40, 8)>>,
      <<Ihdr, Chunk("iTXt", 40, 20), Iend>>,
      <<Ihdr, Chunk("tEXt", 0, 0), Chunk("tEXt", 40, 30), Iend>>,
      <<Ihdr, Chunk("tEXt", TextProbe + 76, TextProbe + 26), Iend>>,
      <<Ihdr, Chunk("tEXt", TextProbe + 76, TextProbe), Iend>>,
      <<Ihdr, Chunk("tEXt", TextProbe + 76, TextProbe + 1), Iend>>,
      <<Ihdr, Chunk("tEXt", TextProbe + 76, TextProbe + 26), Chunk("iTXt", 40, 8), Iend>>,
      <<>> }
ScanDescs ==
    { [sig |-> TRUE, chunks |-> cs] : cs \in ScanChunkLists }
        \cup { [sig |-> FALSE, chunks |-> MetaPng.chunks] }
\* The word at the markers: a keyword, or one the scan does not look for.
ScanWords == { PROMPT, WORKFLOW, <<80, 82, 79, 77, 80, 84, 32, 32>> }
\* How many bytes the end of the file has lost.
ScanCuts == { 0, 3, 12, 16, 50, 100 }

\* The scan of the file, once.
ScanPng ==
    /\ scan_last.result = None
    /\ scan_last' = [scan_last EXCEPT !.result = Some(ScanBytes(scan_last.bytes))]
    /\ UNCHANGED <<now, ticks, disk, cache, metadata_cache, th, inv_count, listing_epoch,
                   last_set, last_listing, last_status, folders_file, thumbVars, pageVars,
                   pathVars, src_last, sort_last, dispatcher>>

InitBytes ==
    /\ now = 0
    /\ ticks = 0
    /\ disk = [d \in {InputDir} |-> Dir(EmptyDict)]
    /\ cache = EmptyDict
    /\ metadata_cache = EmptyDict
    /\ th = [t \in Threads |-> Idle]
    /\ inv_count = 0
    /\ listing_epoch = EmptyDict
    /\ last_set = EmptyDict
    /\ last_listing = NoListing
    /\ last_status = NoStatus
    /\ folders_file = None
    /\ thumbs = EmptyDict
    /\ thumb_last = NoThumbCall
    /\ page_req = NoPage
    /\ path_last = NoPathCall
    /\ src_last = NoSourceCall
    /\ sort_last = NoSort
    /\ dispatcher = NoRequests
    /\ \E desc \in ScanDescs, word \in ScanWords, cut \in ScanCuts :
          \E all \in {Encode(desc, word)} :
              scan_last = [ desc |-> desc, word |-> word,
                            bytes |-> SubSeq(all, 1, Len(all) - cut),
                            result |-> None ]

NextBytes == ScanPng

SpecBytes == InitBytes /\ [][NextBytes]_vars

(***************************************************************************)
(* Thumbnail cache: get_thumbnail_path, generate_thumbnail                 *)
(***************************************************************************)
CACHE_DIR == <<"/", "t">>
\* How many generate_thumbnail calls a behaviour makes.
MaxThumbCalls == 3

\* md5(f"{image_path}:{mtime}").hexdigest(): the digest is taken to be
\* injective, and stands here as the string it digests.
CacheKeyOfPath(image_path, mtime) == image_path \o <<":">>
CacheKey(image_path, mtime) == image_path \o <<":">> \o Str(mtime)

\* The cache path of an image that has a given mtime.
ThumbPathAt(image_path, mtime) ==
    PathJoin(CACHE_DIR, CacheKey(image_path, mtime) \o <<".", "w", "e", "b", "p">>)

\* get_thumbnail_path(image_path); the mtime is 0 when the stat fails.
GetThumbnailPath(d, image_path) ==
    ThumbPathAt(image_path, StatMtime(d, image_path))

\* os.path.exists(thumb_path)
ThumbExistsNever(ts, thumb_path) == FALSE
ThumbExists(ts, thumb_path) == thumb_path \in DOMAIN ts

\* Image.open(image_path) succeeds: the file is there and is an image (in
\* this model, a file with the PNG signature).
CanOpenImage(d, image_path) ==
    \E f \in {LookupFile(d, image_path)} :
        f # None /\ f[1].stat_ok /\ f[1].content.readable /\ f[1].content.sig

\* What img.save does: it writes the file, or it raises and leaves nothing,
\* or it raises and leaves what it had written.
SaveOutcomes == {"ok", "fail", "partial"}

\* generate_thumbnail(image_path): what it returns, the thumbnail directory
\* after it, whether it called Image.open and whether it wrote a file.
GenerateThumbnail(ts, d, image_path, save) ==
    LET Generate(thumb_path) ==
            IF ThumbExists(ts, thumb_path)
            THEN [ret |-> Some(thumb_path), thumbs |-> ts, loaded |-> FALSE,
                  wrote |-> FALSE]
            ELSE IF ~CanOpenImage(d, image_path)
            THEN [ret |-> None, thumbs |-> ts, loaded |-> TRUE, wrote |-> FALSE]
            ELSE IF save = "ok"
            THEN [ret |-> Some(thumb_path), thumbs |-> DictPut(ts, thumb_path, "ok"),
                  loaded |-> TRUE, wrote |-> TRUE]
            ELSE IF save = "partial"
            THEN [ret |-> None, thumbs |-> DictPut(ts, thumb_path, "partial"),
                  loaded |-> TRUE, wrote |-> TRUE]
            ELSE [ret |-> None, thumbs |-> ts, loaded |-> TRUE, wrote |-> FALSE]
    IN Generate(GetThumbnailPath(d, image_path))

\* A call of generate_thumbnail for the image in the default root; the
\* history keeps the mtime the call saw and what it returned, for this call
\* and the one before it.
CallGenerateThumbnail(image_path, save) ==
    /\ thumb_last.n < MaxThumbCalls
    /\ \E r \in {GenerateThumbnail(thumbs, disk, image_path, save)} :
          /\ thumbs' = r.thumbs
          /\ thumb_last' = [ n |-> thumb_last.n + 1, path |-> image_path,
                             mtime |-> StatMtime(disk, image_path), ret |-> r.ret,
                             loaded |-> r.loaded, wrote |-> r.wrote,
                             prev_mtime |-> thumb_last.mtime,
                             prev_ret |-> thumb_last.ret ]
    /\ UNCHANGED <<laterVars, now, ticks, disk, cache, metadata_cache, th, inv_count,
                   listing_epoch, last_set, last_listing, last_status, folders_file,
                   pageVars, pathVars>>

\* The image as other programs leave it: an image, the same rewritten
\* later, and a file of the same age that is no image.
ThumbFiles == { File(1, PlainPng), File(MaxMtime, PlainPng), File(1, NotPng) }

ThumbWrite ==
    /\ \E f \in ThumbFiles : WriteFile(InputDir, A_png, f)
    /\ UNCHANGED <<laterVars, now, ticks, cache, metadata_cache, th, inv_count, listing_epoch,
                   last_set, last_listing, last_status, folders_file, thumbVars,
                   pageVars, pathVars>>
ThumbDelete ==
    /\ DeleteFile(InputDir, A_png)
    /\ UNCHANGED <<laterVars, now, ticks, cache, metadata_cache, th, inv_count, listing_epoch,
                   last_set, last_listing, last_status, folders_file, thumbVars,
                   pageVars, pathVars>>

InitThumb ==
    /\ now = 0
    /\ ticks = 0
    /\ disk \in { [d \in {InputDir} |-> Dir(files)] :
                  files \in {EmptyDict} \cup { [p \in {A_png} |-> f] : f \in ThumbFiles } }
    /\ cache = EmptyDict
    /\ metadata_cache = EmptyDict
    /\ th = [t \in Threads |-> Idle]
    /\ inv_count = 0
    /\ listing_epoch = EmptyDict
    /\ last_set = EmptyDict
    /\ last_listing = NoListing
    /\ last_status = NoStatus
    /\ folders_file = None
    /\ InitRest

NextThumb ==
    \/ \E save \in SaveOutcomes : CallGenerateThumbnail(PathJoin(InputDir, A_png), save)
    \/ ThumbWrite
    \/ ThumbDelete

SpecThumb == InitThumb /\ [][NextThumb]_vars

(***************************************************************************)
(* Pagination: get_images_endpoint                                         *)
(***************************************************************************)
\* The lists paged through have up to MaxTotal entries, in pages of up to
\* MaxPerPage; pages up to MaxPage are asked for.
MaxTotal == 5
MaxPerPage == 3
MaxPage == 6

\* s[start:end] in Python, for any two integers.
PySlice(s, start, end) ==
    LET n == Len(s)
        lo == IF start < 0 THEN Max(start + n, 0) ELSE Min(start, n)
        hi == IF end < 0 THEN Max(end + n, 0) ELSE Min(end, n)
    IN IF lo >= hi THEN <<>> ELSE SubSeq(s, lo + 1, hi)

\* max(1, (total_images + per_page - 1) // per_page)
TotalPagesOneMore(total_images, per_page) == Max(1, total_images \div per_page + 1)
TotalPages(total_images, per_page) ==
    Max(1, (total_images + per_page - 1) \div per_page)

\* The page of all_images the endpoint returns.
PaginatedImages(all_images, page, per_page) ==
    LET start_index == (page - 1) * per_page
        end_index == start_index + per_page
    IN PySlice(all_images, start_index, end_index)

\* The lists and page sizes tried: every small one, and the 125 entries in
\* pages of 50 of the specification's example.  Entry i of a list is i.
PageInputs == ((0..MaxTotal) \X (1..MaxPerPage)) \cup {<<125, 50>>}

\* A request for one page.  read is what a client has that reads the pages
\* in order from the first: the request for the page after read_pages
\* extends it.
GetImagesPage(page) ==
    /\ page_req.page # page
    /\ LET images == PaginatedImages(page_req.all_images, page, page_req.per_page)
           next == page = page_req.read_pages + 1
       IN page_req' = [page_req EXCEPT
            !.page = page,
            !.images = images,
            !.total_pages = TotalPages(Len(page_req.all_images), page_req.per_page),
            !.read_pages = IF next THEN page ELSE @,
            !.read = IF next THEN @ \o images ELSE @]
    /\ UNCHANGED <<laterVars, now, ticks, disk, cache, metadata_cache, th, inv_count,
                   listing_epoch, last_set, last_listing, last_status, folders_file,
                   thumbVars, pathVars>>

InitPage ==
    /\ now = 0
    /\ ticks = 0
    /\ disk = [d \in {InputDir} |-> Dir(EmptyDict)]
    /\ cache = EmptyDict
    /\ metadata_cache = EmptyDict
    /\ th = [t \in Threads |-> Idle]
    /\ inv_count = 0
    /\ listing_epoch = EmptyDict
    /\ last_set = EmptyDict
    /\ last_listing = NoListing
    /\ last_status = NoStatus
    /\ folders_file = None
    /\ thumbs = EmptyDict
    /\ thumb_last = NoThumbCall
    /\ path_last = NoPathCall
    /\ src_last = NoSourceCall
    /\ sort_last = NoSort
    /\ dispatcher = NoRequests
    /\ scan_last = NoScan
    /\ page_req \in { [NoPage EXCEPT !.all_images = [i \in 1..inp[1] |-> i],
                                     !.per_page = inp[2]] : inp \in PageInputs }

NextPage == \E page \in 1..MaxPage : GetImagesPage(page)

SpecPage == InitPage /\ [][NextPage]_vars

(***************************************************************************)
(* Requests that name a file: get_thumbnail, get_preview_image,            *)
(* delete_image, VALIDATE_INPUTS, load_image                               *)
(***************************************************************************)
\* A directory next to the default root whose name begins with its name.
SiblingDir == <<"/", "i", "n", "2">>
S_png == <<"s", ".", "p", "n", "g">>

\* os.path.exists and os.path.isfile of an absolute path
IsFile(d, path) == \E f \in {LookupFile(d, path)} : f # None /\ f[1].stat_ok
PathExists(d, path) == DirExists(d, path) \/ IsFile(d, path)

\* image_path = os.path.normpath(os.path.join(input_dir, filename)), and
\* the check made of it: image_path.startswith(os.path.normpath(input_dir))
ImagePath(input_dir, filename) == NormPath(PathJoin(input_dir, filename))
PathAllowed(input_dir, image_path) == StartsWith(image_path, NormPath(input_dir))

\* The directory without the file at an absolute path.
RemoveFile(d, path) ==
    [dir \in DOMAIN d |->
        [d[dir] EXCEPT !.files =
            [rel \in { x \in DOMAIN @ : PathJoin(dir, x) # path } |-> @[rel]]]]

PathCall(entry, filename, input_dir, outcome, touched) ==
    [ entry |-> entry, filename |-> filename, input_dir |-> input_dir,
      outcome |-> outcome, touched |-> touched ]

\* GET /imagegallery/thumb.  touched is the set of paths the request has
\* tested for existence, opened or deleted.
GetThumbnail(filename, source, save) ==
    /\ thumb_last.n < MaxThumbCalls
    /\ \E input_dir \in {ResolveInputDir(disk, folders_file, source)} :
       \E image_path \in {ImagePath(input_dir, filename)} :
       \E r \in {GenerateThumbnail(thumbs, disk, image_path, save)} :
          IF filename = <<>>
          THEN /\ path_last' = PathCall("thumb", filename, <<>>, "bad_request", {})
               /\ UNCHANGED thumbVars
          ELSE IF Contains(filename, <<".", ".">>)
          THEN /\ path_last' = PathCall("thumb", filename, <<>>, "rejected", {})
               /\ UNCHANGED thumbVars
          ELSE IF ~PathAllowed(input_dir, image_path)
          THEN /\ path_last' = PathCall("thumb", filename, input_dir, "rejected", {})
               /\ UNCHANGED thumbVars
          ELSE IF ~PathExists(disk, image_path)
          THEN /\ path_last' = PathCall("thumb", filename, input_dir, "not_found",
                                        {image_path})
               /\ UNCHANGED thumbVars
          ELSE /\ path_last' = PathCall("thumb", filename, input_dir, "served",
                                        {image_path})
               /\ thumbs' = r.thumbs
               /\ thumb_last' = [ n |-> thumb_last.n + 1, path |-> image_path,
                                  mtime |-> StatMtime(disk, image_path), ret |-> r.ret,
                                  loaded |-> r.loaded, wrote |-> r.wrote,
                                  prev_mtime |-> thumb_last.mtime,
                                  prev_ret |-> thumb_last.ret ]
    /\ UNCHANGED <<laterVars, now, ticks, disk, cache, metadata_cache, th, inv_count,
                   listing_epoch, last_set, last_listing, last_status, folders_file,
                   pageVars>>

\* GET /imagegallery/preview
GetPreviewImage(filename, source) ==
    /\ \E input_dir \in {ResolveInputDir(disk, folders_file, source)} :
       \E image_path \in {ImagePath(input_dir, filename)} :
          path_last' =
            IF filename = <<>>
            THEN PathCall("preview", filename, <<>>, "bad_request", {})
            ELSE IF Contains(filename, <<".", ".">>)
            THEN PathCall("preview", filename, <<>>, "rejected", {})
            ELSE IF ~PathAllowed(input_dir, image_path)
            THEN PathCall("preview", filename, input_dir, "rejected", {})
            ELSE IF PathExists(disk, image_path) /\ IsFile(disk, image_path)
            THEN PathCall("preview", filename, input_dir, "served", {image_path})
            ELSE PathCall("preview", filename, input_dir, "not_found", {image_path})
    /\ UNCHANGED <<laterVars, now, ticks, disk, cache, metadata_cache, th, inv_count,
                   listing_epoch, last_set, last_listing, last_status, folders_file,
                   thumbVars, pageVars>>

\* POST /imagegallery/delete_image: the thumbnail of the file is removed,
\* the file goes (to the recycle bin or for good), the listings are
\* invalidated.
DeleteImage(image_name, source) ==
    /\ \E input_dir \in {ResolveInputDir(disk, folders_file, source)} :
       \E image_path \in {ImagePath(input_dir, image_name)} :
       \E thumb_path \in {GetThumbnailPath(disk, image_path)} :
          IF image_name = <<>>
          THEN /\ path_last' = PathCall("delete", image_name, <<>>, "bad_request", {})
               /\ UNCHANGED <<disk, thumbs, cache, metadata_cache, inv_count,
                              listing_epoch>>
          ELSE IF ~PathAllowed(input_dir, image_path)
          THEN /\ path_last' = PathCall("delete", image_name, input_dir, "rejected", {})
               /\ UNCHANGED <<disk, thumbs, cache, metadata_cache, inv_count,
                              listing_epoch>>
          ELSE IF ~PathExists(disk, image_path)
          THEN /\ path_last' = PathCall("delete", image_name, input_dir, "not_found",
                                        {image_path})
               /\ UNCHANGED <<disk, thumbs, cache, metadata_cache, inv_count,
                              listing_epoch>>
          ELSE IF ~IsFile(disk, image_path)
          THEN /\ path_last' = PathCall("delete", image_name, input_dir, "bad_request",
                                        {image_path})
               /\ UNCHANGED <<disk, thumbs, cache, metadata_cache, inv_count,
                              listing_epoch>>
          ELSE /\ path_last' = PathCall("delete", image_name, input_dir, "deleted",
                                        {image_path})
               /\ thumbs' = [x \in DOMAIN thumbs \ {thumb_path} |-> thumbs[x]]
               /\ disk' = RemoveFile(disk, image_path)
               /\ cache' = ListingAfterInvalidate(cache)
               /\ metadata_cache' = MetadataAfterInvalidate(metadata_cache)
               /\ inv_count' = inv_count + 1
               /\ listing_epoch' = EmptyDict
    /\ UNCHANGED <<laterVars, now, ticks, th, last_set, last_listing, last_status, folders_file,
                   thumb_last, pageVars>>

\* LocalImageGallery.VALIDATE_INPUTS
ValidateInputs(selected_image, source_folder) ==
    /\ \E input_dir \in {ResolveInputDir(disk, folders_file, source_folder)} :
       \E image_path \in {ImagePath(input_dir, selected_image)} :
          path_last' =
            IF selected_image = <<>>
            THEN PathCall("validate", selected_image, <<>>, "valid", {})
            ELSE IF ~PathAllowed(input_dir, image_path)
            THEN PathCall("validate", selected_image, input_dir, "rejected", {})
            ELSE IF ~PathExists(disk, image_path)
            THEN PathCall("validate", selected_image, input_dir, "not_found",
                          {image_path})
            ELSE PathCall("validate", selected_image, input_dir, "valid", {image_path})
    /\ UNCHANGED <<laterVars, now, ticks, disk, cache, metadata_cache, th, inv_count,
                   listing_epoch, last_set, last_listing, last_status, folders_file,
                   thumbVars, pageVars>>

\* LocalImageGallery.load_image: the image, or a blank one.
LoadImage(selected_image, source_folder) ==
    /\ \E input_dir \in {ResolveInputDir(disk, folders_file, source_folder)} :
       \E image_path \in {ImagePath(input_dir, selected_image)} :
          path_last' =
            IF selected_image = <<>>
            THEN PathCall("load", selected_image, <<>>, "blank", {})
            ELSE IF ~PathAllowed(input_dir, image_path)
            THEN PathCall("load", selected_image, input_dir, "rejected", {})
            ELSE IF ~PathExists(disk, image_path)
            THEN PathCall("load", selected_image, input_dir, "not_found", {image_path})
            ELSE IF CanOpenImage(disk, image_path)
            THEN PathCall("load", selected_image, input_dir, "served", {image_path})
            ELSE PathCall("load", selected_image, input_dir, "blank", {image_path})
    /\ UNCHANGED <<laterVars, now, ticks, disk, cache, metadata_cache, th, inv_count,
                   listing_epoch, last_set, last_listing, last_status, folders_file,
                   thumbVars, pageVars>>

\* The names asked for: none, an image of the root, and three ways out of
\* the root: up into the directory next to it, the same by an absolute
\* path, and up into another source folder.
FileNames ==
    { <<>>, A_png,
      <<".", ".", "/", "i", "n", "2", "/">> \o S_png,
      PathJoin(SiblingDir, S_png),
      <<".", ".", "/", "x", "/">> \o D_jpg }
SourceNames == {<<>>, ExtDir}

InitPath ==
    /\ now = 0
    /\ ticks = 0
    /\ disk = [d \in {InputDir, SiblingDir, ExtDir} |->
                IF d = InputDir THEN Dir([p \in {A_png} |-> File(1, PlainPng)])
                ELSE IF d = SiblingDir THEN Dir([p \in {S_png} |-> File(1, PlainPng)])
                ELSE Dir([p \in {D_jpg} |-> File(1, NotPng)])]
    /\ cache = EmptyDict
    /\ metadata_cache = EmptyDict
    /\ th = [t \in Threads |-> Idle]
    /\ inv_count = 0
    /\ listing_epoch = EmptyDict
    /\ last_set = EmptyDict
    /\ last_listing = NoListing
    /\ last_status = NoStatus
    /\ folders_file = Some(<<FolderConfig(ExtDir, <<"x">>, FALSE)>>)
    /\ InitRest

NextPath ==
    \/ \E f \in FileNames, src \in SourceNames, save \in SaveOutcomes :
            GetThumbnail(f, src, save)
    \/ \E f \in FileNames, src \in SourceNames : GetPreviewImage(f, src)
    \/ \E f \in FileNames, src \in SourceNames : DeleteImage(f, src)
    \/ \E f \in FileNames, src \in SourceNames : ValidateInputs(f, src)
    \/ \E f \in FileNames, src \in SourceNames : LoadImage(f, src)

SpecPath == InitPath /\ [][NextPath]_vars

(***************************************************************************)
(* The source-folder registry: get_source_folders, add_source_folder,      *)
(* remove_source_folder, and the listings made of the registered folders   *)
(***************************************************************************)
\* How many registrations and deregistrations a behaviour accepts.
MaxSourceChanges == 2

\* save_source_folders(folders): the file then holds the list, or, when
\* writing it fails (the failure is logged and not raised), what it held.
SaveResults == {"ok", "fail"}
SaveSourceFolders(ff, folders, save) == IF save = "ok" THEN Some(folders) ELSE ff

\* any(os.path.normpath(f.get('path', '')) == folder_path for f in folders)
AlreadyListedNever(folders, folder_path) == FALSE
AlreadyListed(folders, folder_path) ==
    \E f \in Range(folders) : NormPath(f.path) = folder_path

\* [f for f in folders if os.path.normpath(f.get('path', '')) != folder_path]
WithoutFolder(folders, folder_path) ==
    SelectSeq(folders, LAMBDA f : NormPath(f.path) # folder_path)

SourceCall(op, path, name, status, save) ==
    [ op |-> op, path |-> path, name |-> name, status |-> status, save |-> save ]

\* The reply 400 of a registry request: nothing is written.
SourceRejected(op, path, name) ==
    /\ src_last' = SourceCall(op, path, name, 400, "none")
    /\ UNCHANGED <<folders_file, cache, metadata_cache, inv_count, listing_epoch>>

\* The reply 200 of a registry request: the list is saved, the cache is
\* invalidated, the list is returned.
SourceAccepted(op, path, name, folders, save) ==
    /\ inv_count < MaxSourceChanges
    /\ src_last' = SourceCall(op, path, name, 200, save)
    /\ folders_file' = SaveSourceFolders(folders_file, folders, save)
    /\ cache' = ListingAfterInvalidate(cache)
    /\ metadata_cache' = MetadataAfterInvalidate(metadata_cache)
    /\ inv_count' = inv_count + 1
    /\ listing_epoch' = EmptyDict

\* POST /imagegallery/add_source_folder
AddSourceFolder(path, name, save) ==
    /\ \E folder_path \in {NormPath(path)} :
       \E folder_name \in { IF name # <<>> THEN name
                            ELSE IF Basename(folder_path) # <<>>
                                 THEN Basename(folder_path) ELSE folder_path } :
       \E folders \in {LoadSourceFolders(disk, folders_file)} :
          IF path = <<>> THEN SourceRejected("add", path, name)
          ELSE IF ~DirExists(disk, folder_path) THEN SourceRejected("add", path, name)
          ELSE IF AlreadyListed(folders, folder_path)
          THEN SourceRejected("add", path, name)
          ELSE SourceAccepted("add", path, name,
                              Append(folders, FolderConfig(folder_path, folder_name, FALSE)),
                              save)
    /\ UNCHANGED <<now, ticks, disk, th, last_set, last_listing, last_status,
                   thumbVars, pageVars, pathVars, sort_last, dispatcher, scan_last>>

\* POST /imagegallery/remove_source_folder
RemoveSourceFolder(path, save) ==
    /\ \E folder_path \in {NormPath(path)} :
       \E folders \in {LoadSourceFolders(disk, folders_file)} :
       \E new_folders \in {WithoutFolder(folders, folder_path)} :
          IF path = <<>> THEN SourceRejected("remove", path, <<>>)
          ELSE IF folder_path = NormPath(InputDir)
          THEN SourceRejected("remove", path, <<>>)
          ELSE IF Len(new_folders) = Len(folders)
          THEN SourceRejected("remove", path, <<>>)
          ELSE SourceAccepted("remove", path, <<>>, new_folders, save)
    /\ UNCHANGED <<now, ticks, disk, th, last_set, last_listing, last_status,
                   thumbVars, pageVars, pathVars, sort_last, dispatcher, scan_last>>

\* A list_images request for one source or for all of them, unfiltered.
ListSource(source_folder) ==
    /\ \E r \in { ListImages(cache, metadata_cache, disk, folders_file,
                             source_folder, "all", "name", now) } :
          /\ cache' = r.cache
          /\ metadata_cache' = r.mc
          /\ src_last' = SourceCall("list", source_folder, <<>>, 200, "none")
    /\ UNCHANGED <<now, ticks, disk, th, inv_count, listing_epoch, last_set,
                   last_listing, last_status, folders_file, thumbVars, pageVars,
                   pathVars, sort_last, dispatcher, scan_last>>

\* Another program removes a directory with all it holds.
RemoveDir(dir) ==
    /\ disk[dir].exists
    /\ disk' = [disk EXCEPT ![dir] = MissingDir]
    /\ UNCHANGED <<now, ticks>>
    /\ UNCHANGED cacheVars

\* The paths asked for: none, the default root, a second folder by its
\* path and with a slash after it, and a third folder.
SourcePaths == { <<>>, InputDir, ExtDir, ExtDir \o <<"/">>, SiblingDir }
\* The display names given: none, and the default root's.
DisplayNames == { <<>>, DefaultFolder.name }

\* Three directories, each with an image of the same name; only the default
\* root is registered.
InitSources ==
    /\ now = 0
    /\ ticks = 0
    /\ disk = [d \in {InputDir, ExtDir, SiblingDir} |->
                Dir([p \in {A_png} |-> File(1, PlainPng)])]
    /\ cache = EmptyDict
    /\ metadata_cache = EmptyDict
    /\ th = [t \in Threads |-> Idle]
    /\ inv_count = 0
    /\ listing_epoch = EmptyDict
    /\ last_set = EmptyDict
    /\ last_listing = NoListing
    /\ last_status = NoStatus
    /\ folders_file = None
    /\ InitRest

NextSources ==
    \/ \E path \in SourcePaths, name \in DisplayNames, save \in SaveResults :
            AddSourceFolder(path, name, save)
    \/ \E path \in SourcePaths, save \in SaveResults : RemoveSourceFolder(path, save)
    \/ \E source \in SourcePaths \cup {ALL} : ListSource(source)
    \/ \E dir \in {InputDir, ExtDir} : RemoveDir(dir)

SpecSources == InitSources /\ [][NextSources]_vars

(***************************************************************************)
(* The sort parameter of GET /imagegallery/get_images                      *)
(***************************************************************************)
\* if sort_by not in ['name', 'date', 'date_asc']: sort_by = 'name'
SortParam(sort) == IF sort \in {"name", "date", "date_asc"} THEN sort ELSE "name"

\* The values of the sort parameter a client sends.
SortValues == {"name", "date", "date_asc", "date_desc"}

\* A get_images request: the entries in the order served.
GetImagesSorted(sort, source_folder, metadata_filter) ==
    /\ \E r \in { ListImages(cache, metadata_cache, disk, folders_file,
                             source_folder, metadata_filter, SortParam(sort), now) } :
          /\ cache' = r.cache
          /\ metadata_cache' = r.mc
          /\ sort_last' = [sort |-> sort, source |-> source_folder,
                           filter |-> metadata_filter, images |-> r.images]
    /\ UNCHANGED <<now, ticks, disk, th, inv_count, listing_epoch, last_set,
                   last_listing, last_status, folders_file, thumbVars, pageVars,
                   pathVars, src_last, dispatcher, scan_last>>

\* The default root holds any of three images, whose names differ in case,
\* each with either mtime; a registered second folder, named "x" or "a",
\* holds one more.
SortNames == {A_png, B_png, C_jpg}
SortFolderNames == {<<"x">>, <<"a">>}
InitSort ==
    /\ now = 0
    /\ ticks = 0
    /\ disk \in { [d \in {InputDir, ExtDir} |->
                    IF d = ExtDir THEN Dir([p \in {D_jpg} |-> File(1, NotPng)])
                    ELSE Dir([p \in DOMAIN m |-> File(m[p], PlainPng)])] :
                  m \in UNION { [names -> 1..MaxMtime] : names \in SUBSET SortNames } }
    /\ cache = EmptyDict
    /\ metadata_cache = EmptyDict
    /\ th = [t \in Threads |-> Idle]
    /\ inv_count = 0
    /\ listing_epoch = EmptyDict
    /\ last_set = EmptyDict
    /\ last_listing = NoListing
    /\ last_status = NoStatus
    /\ folders_file \in { Some(<<FolderConfig(ExtDir, name, FALSE)>>) :
                            name \in SortFolderNames }
    /\ InitRest

NextSort ==
    \E sort \in SortValues, source \in {<<>>, ALL}, metadata_filter \in {"all", "without"} :
        GetImagesSorted(sort, source, metadata_filter)

SpecSort == InitSort /\ [][NextSort]_vars

(***************************************************************************)
(* The request dispatcher: the handlers as coroutines of one event loop    *)
(***************************************************************************)
\* How many requests a behaviour receives.
MaxRequests == 3

\* get_images_endpoint, get_thumbnail and browse_folder.
RequestKinds == {"list", "thumb", "browse"}
\* The handlers that hand their work to _executor and await it: only
\* browse_folder calls loop.run_in_executor.
UsesExecutor(kind) == kind = "browse"

dispatchFrame == <<now, ticks, disk, th, inv_count, listing_epoch, last_set, last_listing,
                   last_status, folders_file, thumb_last, pageVars, pathVars, src_last,
                   sort_last, scan_last>>

\* A request reaches the server; its handler has not started.
Arrive(kind) ==
    /\ Len(dispatcher.reqs) < MaxRequests
    /\ dispatcher' = [dispatcher EXCEPT
                         !.reqs = Append(@, [kind |-> kind, phase |-> "waiting"])]
    /\ UNCHANGED <<dispatchFrame, cache, metadata_cache, thumbs>>

\* The event loop, running no handler, starts the handler of a waiting
\* request.  browse_folder submits open_folder_dialog to _executor and is
\* suspended at its await, which frees the loop; get_images_endpoint and
\* get_thumbnail call get_input_images_optimized and generate_thumbnail
\* themselves, on the loop's thread.
Dispatch(id) ==
    /\ dispatcher.loop = 0
    /\ id \in DOMAIN dispatcher.reqs
    /\ dispatcher.reqs[id].phase = "waiting"
    /\ dispatcher' =
          IF UsesExecutor(dispatcher.reqs[id].kind)
          THEN [dispatcher EXCEPT !.pool = @ \cup {id},
                                  !.reqs[id].phase = "suspended"]
          ELSE [dispatcher EXCEPT !.loop = id, !.reqs[id].phase = "work"]
    /\ UNCHANGED <<dispatchFrame, cache, metadata_cache, thumbs>>

\* The handler the loop is running ends its directory scan, metadata scan
\* or thumbnail generation and returns its response.
FinishOnLoop ==
    /\ dispatcher.loop # 0
    /\ \E id \in {dispatcher.loop} :
          /\ dispatcher' = [dispatcher EXCEPT !.loop = 0, !.reqs[id].phase = "done"]
          /\ IF dispatcher.reqs[id].kind = "list"
             THEN \E r \in { ListImages(cache, metadata_cache, disk, folders_file,
                                        <<>>, "with", "name", now) } :
                      /\ cache' = r.cache
                      /\ metadata_cache' = r.mc
                      /\ thumbs' = thumbs
             ELSE \E g \in { GenerateThumbnail(thumbs, disk, PathJoin(InputDir, A_png),
                                               "ok") } :
                      /\ thumbs' = g.thumbs
                      /\ UNCHANGED <<cache, metadata_cache>>
    /\ UNCHANGED dispatchFrame

\* A worker thread of _executor ends the work of a suspended request.
PoolDone(id) ==
    /\ id \in dispatcher.pool
    /\ dispatcher' = [dispatcher EXCEPT !.pool = @ \ {id}, !.reqs[id].phase = "ready"]
    /\ UNCHANGED <<dispatchFrame, cache, metadata_cache, thumbs>>

\* The event loop, running no handler, resumes a request whose work is
\* done; the handler returns its response.
Resume(id) ==
    /\ dispatcher.loop = 0
    /\ id \in DOMAIN dispatcher.reqs
    /\ dispatcher.reqs[id].phase = "ready"
    /\ dispatcher' = [dispatcher EXCEPT !.reqs[id].phase = "done"]
    /\ UNCHANGED <<dispatchFrame, cache, metadata_cache, thumbs>>

InitDispatch ==
    /\ now = 0
    /\ ticks = 0
    /\ disk = [d \in {InputDir} |-> Dir([p \in {A_png} |-> File(1, MetaPng)])]
    /\ cache = EmptyDict
    /\ metadata_cache = EmptyDict
    /\ th = [t \in Threads |-> Idle]
    /\ inv_count = 0
    /\ listing_epoch = EmptyDict
    /\ last_set = EmptyDict
    /\ last_listing = NoListing
    /\ last_status = NoStatus
    /\ folders_file = None
    /\ InitRest

NextDispatch ==
    \/ \E kind \in RequestKinds : Arrive(kind)
    \/ \E id \in 1..MaxRequests : Dispatch(id)
    \/ FinishOnLoop
    \/ \E id \in 1..MaxRequests : PoolDone(id)
    \/ \E id \in 1..MaxRequests : Resume(id)

SpecDispatch == InitDispatch /\ [][NextDispatch]_vars

(***************************************************************************)
(* Properties of the cache store under concurrent callers                  *)
(***************************************************************************)
ListingKey == DirKey(InputDir)
ListingFresh == ListingKey \in DOMAIN cache /\ now - cache[ListingKey].time <= 30
ImagesOnDisk(dir) ==
    { p \in DOMAIN disk[dir].files :
        Lower(SplitExt(Basename(p))) \in IMAGE_EXTENSIONS }

\* C2: once invalidate() has returned, every get_directory_listing call that
\* starts later returns data scanned after that invalidation: the data a
\* call returns was scanned when at least as many invalidations had returned
\* as had when the call started.
C2_ListingAfterInvalidateIsFresh ==
    last_listing.dir # <<>> => last_listing.ret_inv >= last_listing.start_inv

\* C3: get_directory_listing returns the cached value exactly when an entry
\* for the directory exists and is at most 30 seconds old; otherwise it scans
\* the directory, stores the result under the current time and returns it.
C3_ListingHitIffFresh ==
    [][ /\ (last_listing' # last_listing /\ last_listing'.hit) =>
                /\ ListingFresh
                /\ last_listing'.data = cache[ListingKey].data
                /\ cache' = cache
        /\ \A t \in Threads :
            /\ (th[t].pc = "idle" /\ th'[t].pc = "scan") =>
                    ~ListingFresh /\ cache' = cache
            /\ (th[t].pc = "scan" /\ th'[t].pc = "store") =>
                    /\ Range(th'[t].scanned.images) = ImagesOnDisk(th[t].dir)
                    /\ \A p \in ImagesOnDisk(th[t].dir) :
                          th'[t].scanned.mtimes[p] =
                              StatMtime(disk, PathJoin(th[t].dir, p))
            /\ (th[t].pc = "store" /\ th'[t].pc = "idle") =>
                    /\ cache' = [k \in DOMAIN cache \cup {ListingKey} |->
                                    IF k = ListingKey
                                    THEN [time |-> now, data |-> th[t].scanned]
                                    ELSE cache[k]]
                    /\ last_listing'.data = th[t].scanned
                    /\ ~last_listing'.hit
      ]_vars

\* A call was served from an entry exactly 30 seconds old, and a call one
\* second later found it 31 seconds old and has scanned the directory, which
\* no longer holds what the entry says.
C3_Witness ==
    /\ last_listing.hit
    /\ last_listing.found_age = 30
    /\ \E t \in Threads :
        /\ th[t].pc = "store"
        /\ th[t].found_age = 31
        /\ th[t].scanned # last_listing.data

\* C4 as stated: for a fixed (path, mtime) pair get_metadata_status always
\* returns the same boolean: two booleans it returns one after the other for
\* the same pair are equal.
C4_SameBooleanForever ==
    [][ (/\ last_status.path # <<>>
         /\ last_status'.path = last_status.path
         /\ last_status'.mtime = last_status.mtime)
        => last_status'.value = last_status.value ]_vars

\* C4, amended: the boolean get_metadata_status returns for a (path, mtime)
\* pair is the one given to the latest set_metadata_status for that pair,
\* whatever the file holds now; and what is recorded for a pair changes only
\* when a caller that found no fresh entry for the pair stores its own
\* reading of the file.
C4_SameBooleanUntilRecomputed ==
    [][ /\ last_status' # last_status =>
                /\ <<last_status'.path, last_status'.mtime>> \in DOMAIN last_set
                /\ last_status'.value =
                       last_set[<<last_status'.path, last_status'.mtime>>].data
        /\ \A pr \in DOMAIN last_set' :
                (pr \notin DOMAIN last_set \/ last_set'[pr] # last_set[pr]) =>
                    \E t \in Threads :
                        /\ th[t].pc = "set" /\ th'[t].pc = "idle"
                        /\ pr = <<th[t].path, th[t].mtime>>
                        /\ last_set'[pr] = [time |-> now, data |-> th[t].has_meta]
      ]_vars

\* get_metadata_status has answered from an entry at least one second old
\* for a file that has the mtime asked for and content that scans to the
\* other boolean.
C4_Witness ==
    /\ last_status.path # <<>>
    /\ last_status.stale
    /\ last_status.age >= 1

\* C5: get_metadata_status returns a boolean only when set_metadata_status
\* was called for exactly that (path, mtime) pair and the latest such call is
\* at most 300 seconds old, and then it is that call's boolean; otherwise it
\* returns nothing; and it modifies neither partition.
C5_MetadataHitIffSetAndFresh ==
    [][ /\ last_status' # last_status =>
            LET pr == <<last_status'.path, last_status'.mtime>> IN
                /\ pr \in DOMAIN last_set
                /\ now - last_set[pr].time <= 300
                /\ last_status'.value = last_set[pr].data
                /\ cache' = cache /\ metadata_cache' = metadata_cache
        /\ \A t \in Threads :
            (th[t].pc = "idle" /\ th'[t].pc = "read") =>
                LET pr == <<th'[t].path, th'[t].mtime>> IN
                    /\ ~(pr \in DOMAIN last_set /\ now - last_set[pr].time <= 300)
                    /\ cache' = cache /\ metadata_cache' = metadata_cache
      ]_vars

\* An entry exactly 300 seconds old was returned; one second later a call
\* for the same pair found it 301 seconds old and got nothing, as did a call
\* for the same path under another mtime, for which nothing was set.
C5_Witness ==
    /\ last_status.age = 300
    /\ \E t, u \in Threads :
        /\ th[t].pc = "read" /\ th[t].found_age = 301
        /\ th[t].path = last_status.path /\ th[t].mtime = last_status.mtime
        /\ th[u].pc = "read" /\ th[u].found_age = -1
        /\ th[u].path = th[t].path /\ th[u].mtime # th[t].mtime
        /\ <<th[u].path, th[u].mtime>> \notin DOMAIN last_set

(***************************************************************************)
(* Properties of the query engine                                          *)
(*                                                                         *)
(* A property of two or three requests in a row is stated of the requests  *)
(* a client could make next from the current state: the first at the       *)
(* current time, each later one against the partitions the one before it   *)
(* left, after a delay and after a change of the directory where the       *)
(* property allows one.                                                    *)
(***************************************************************************)
\* What a request returns.
Returned(r) == <<r.images, r.folders, r.mtimes, r.input_dir>>
Names(r) == { r.images[i].name : i \in DOMAIN r.images }

\* The directory after another program has rewritten or deleted the image
\* in the default root, or left it alone.
LaterDisks ==
    { [disk EXCEPT ![InputDir].files = DictPut(@, A_png, f)] : f \in QueryFiles }
        \cup { [disk EXCEPT ![InputDir].files = [x \in DOMAIN @ \ {A_png} |-> @[x]]] }

\* The time between two requests in a row.
Delay == 1

\* The second request comes while every listing the first one used is at
\* most 30 seconds old.
WithinListingTtl(r1, t2) ==
    \A dir \in r1.listed : t2 - r1.cache[DirKey(dir)].time <= 30

\* C1 as stated: two list_images requests in a row with the same arguments,
\* the second within the TTL window of the cached listing and no
\* invalidate() between them, return the same, whatever happens to the
\* files between them, and the second scans no directory.
C1_SameResultWithinTtl ==
    \A a \in QueryArgs :
        LET r1 == ListImages(cache, metadata_cache, disk, folders_file,
                             a[1][1], a[2], a[1][2], now)
        IN \A d2 \in LaterDisks :
            LET r2 == ListImages(r1.cache, r1.mc, d2, folders_file,
                                 a[1][1], a[2], a[1][2], now + Delay)
            IN WithinListingTtl(r1, now + Delay) =>
                    Returned(r2) = Returned(r1) /\ r2.scanned = {}

\* C1, amended: under the same conditions the second request scans no
\* directory, and it returns the same as the first when the metadata filter
\* is "all" or when it finds every metadata status it needs still cached; a
\* status older than 300 seconds is read again from the file as it is then.
C1_SameResultWithinBothTtls ==
    \A a \in QueryArgs :
        LET r1 == ListImages(cache, metadata_cache, disk, folders_file,
                             a[1][1], a[2], a[1][2], now)
        IN \A d2 \in LaterDisks :
            LET r2 == ListImages(r1.cache, r1.mc, d2, folders_file,
                                 a[1][1], a[2], a[1][2], now + Delay)
            IN WithinListingTtl(r1, now + Delay) =>
                    /\ r2.scanned = {}
                    /\ (a[2] = "all" \/ r2.computed = {}) => Returned(r2) = Returned(r1)

\* A filtered request that returns the image from a listing and a status
\* cached earlier, would return it again a second later after the image was
\* deleted, and would not return it if it scanned then.
C1_Witness ==
    /\ DirKey(InputDir) \in DOMAIN cache
    /\ now - cache[DirKey(InputDir)].time >= 1
    /\ MetaKey(PathJoin(InputDir, A_png), 1) \in DOMAIN metadata_cache
    /\ LET gone == [disk EXCEPT ![InputDir].files = [x \in DOMAIN @ \ {A_png} |-> @[x]]]
           r1 == ListImages(cache, metadata_cache, disk, folders_file,
                            <<>>, "with", "name", now)
           r2 == ListImages(r1.cache, r1.mc, gone, folders_file,
                            <<>>, "with", "name", now + Delay)
       IN /\ A_png \in DOMAIN disk[InputDir].files
          /\ r1.scanned = {} /\ r1.computed = {}
          /\ Names(r1) = {A_png}
          /\ WithinListingTtl(r1, now + Delay)
          /\ r2.computed = {}
          /\ Returned(r2) = Returned(r1)
          /\ ScanDirectory(gone, InputDir) # r1.cache[DirKey(InputDir)].data

\* The delays between the requests of C7: none, and enough for every cache
\* entry to expire.
SnapshotDelays == {0, MetadataTTL + 1}

\* C7 as stated: while the files stay as they are, the "with" result and
\* the "without" result of a source are disjoint, and together they are the
\* "all" result.
C7_FilterPartitionOnSnapshot ==
    \A ss \in SourceAndSort : \A e1, e2 \in SnapshotDelays :
        LET w == ListImages(cache, metadata_cache, disk, folders_file,
                            ss[1], "with", ss[2], now)
            wo == ListImages(w.cache, w.mc, disk, folders_file,
                             ss[1], "without", ss[2], now + e1)
            all == ListImages(wo.cache, wo.mc, disk, folders_file,
                              ss[1], "all", ss[2], now + e1 + e2)
        IN /\ Names(w) \cap Names(wo) = {}
           /\ Names(w) \cup Names(wo) = Names(all)

\* C7, amended: the "with", "without" and "all" requests for a source made
\* one after the other, with no cache entry expiring and nothing else
\* happening between them, return "with" and "without" results that are
\* disjoint and together are the "all" result, entry for entry.
C7_FilterPartitionBackToBack ==
    \A ss \in SourceAndSort :
        LET w == ListImages(cache, metadata_cache, disk, folders_file,
                            ss[1], "with", ss[2], now)
            wo == ListImages(w.cache, w.mc, disk, folders_file,
                             ss[1], "without", ss[2], now)
            all == ListImages(wo.cache, wo.mc, disk, folders_file,
                              ss[1], "all", ss[2], now)
            entries(r) == { r.images[i] : i \in DOMAIN r.images }
        IN /\ Names(w) \cap Names(wo) = {}
           /\ entries(w) \cup entries(wo) = entries(all)
           /\ Len(w.images) + Len(wo.images) = Len(all.images)

\* The partitions hold a listing and a status that the files no longer
\* match, and the three requests for all folders still split the entries:
\* the image is in "with", the JPEGs of both folders are in "without".
C7_Witness ==
    /\ DirKey(InputDir) \in DOMAIN cache
    /\ MetaKey(PathJoin(InputDir, A_png), 1) \in DOMAIN metadata_cache
    /\ ReadMetadata(disk, PathJoin(InputDir, A_png)) = FALSE
    /\ LET w == ListImages(cache, metadata_cache, disk, folders_file,
                           ALL, "with", "date", now)
           wo == ListImages(w.cache, w.mc, disk, folders_file,
                            ALL, "without", "date", now)
       IN /\ w.scanned = {} /\ w.computed = {}
          /\ Cardinality(Names(w)) = 1
          /\ Cardinality(Names(wo)) = 2

SameFileTwice ==
    /\ thumb_last.n >= 2
    /\ thumb_last.mtime >= 1
    /\ thumb_last.mtime = thumb_last.prev_mtime

\* C6 as stated: the second of two calls in a row on a file whose path and
\* mtime are unchanged returns what the first returned, and it loads no
\* image and writes no file.
C6_SecondCallIsCacheHit ==
    SameFileTwice =>
        /\ thumb_last.ret = thumb_last.prev_ret
        /\ ~thumb_last.loaded /\ ~thumb_last.wrote

\* C6, amended: when the first of the two calls returned an artifact path,
\* the second returns the same path, loads no image and writes no file.
C6_SecondCallIsCacheHitAfterSuccess ==
    (SameFileTwice /\ thumb_last.prev_ret # None) =>
        /\ thumb_last.ret = thumb_last.prev_ret
        /\ ~thumb_last.loaded /\ ~thumb_last.wrote

\* Two calls in a row on the file with its mtime unchanged: both returned
\* the path of the artifact, which is there, and the second loaded nothing.
C6_Witness ==
    /\ SameFileTwice
    /\ thumb_last.prev_ret # None
    /\ thumb_last.ret = thumb_last.prev_ret
    /\ ~thumb_last.loaded
    /\ thumb_last.ret[1] = GetThumbnailPath(disk, thumb_last.path)
    /\ thumbs[thumb_last.ret[1]] = "ok"

\* C16: a generate_thumbnail call that returned the failure signal left
\* no file at the cache path of the (path, mtime) it saw, and a call that
\* found a file at the cache path found one that a successful call wrote.
C16_FailureLeavesNoFile ==
    thumb_last.n >= 1 =>
        /\ thumb_last.ret = None =>
              ~ThumbExists(thumbs, ThumbPathAt(thumb_last.path, thumb_last.mtime))
        /\ (thumb_last.ret # None /\ ~thumb_last.wrote) =>
              thumbs[thumb_last.ret[1]] = "ok"

\* C17: the path a generate_thumbnail call returns is the cache path of the
\* (path, mtime) it saw and of no other mtime of that path; of two calls in
\* a row for the same path that returned a path, the second returned the
\* path of the first if it saw the same mtime and another path if it saw
\* another mtime.
C17_KeyFollowsMtime ==
    (thumb_last.n >= 1 /\ thumb_last.ret # None) =>
        /\ thumb_last.ret[1] = ThumbPathAt(thumb_last.path, thumb_last.mtime)
        /\ \A m \in 0..MaxMtime :
              m # thumb_last.mtime =>
                  thumb_last.ret[1] # ThumbPathAt(thumb_last.path, m)
        /\ (thumb_last.n >= 2 /\ thumb_last.prev_ret # None) =>
              (thumb_last.ret = thumb_last.prev_ret
                   <=> thumb_last.mtime = thumb_last.prev_mtime)

\* The file was rewritten between two calls that each returned a path: the
\* artifact made for the earlier mtime is still in the cache directory and
\* the second call returned another one.
C17_Witness ==
    /\ thumb_last.n >= 2
    /\ thumb_last.prev_ret # None /\ thumb_last.ret # None
    /\ thumb_last.prev_mtime = 1 /\ thumb_last.mtime = MaxMtime
    /\ thumb_last.prev_ret[1] \in DOMAIN thumbs
    /\ thumb_last.ret[1] \in DOMAIN thumbs
    /\ thumb_last.ret # thumb_last.prev_ret

\* The images the listing of the default root shows a request made now.
ListedNow ==
    UNION { Names(r) : r \in { ListImages(cache, metadata_cache, disk, folders_file,
                                          <<>>, "all", "name", now) } }

\* C18: a list_images request with a metadata filter returns a result
\* whatever the files are.  Every image of the listing is in exactly one of
\* the results for "with" and "without"; an image whose file the request
\* read and whose read raised (the file is gone, is a link to nothing or
\* may not be read) is in the result for "without" and has the status false
\* stored; a file cut short before the keyword is treated the same; and
\* the whole image next to it is in the result for "with".
C18_ScanFailureIsNoMetadata ==
    \A w \in { ListImages(cache, metadata_cache, disk, folders_file,
                          <<>>, "with", "name", now) } :
    \A wo \in { ListImages(cache, metadata_cache, disk, folders_file,
                           <<>>, "without", "name", now) } :
        /\ Names(w) \cup Names(wo) = ListedNow
        /\ Names(w) \cap Names(wo) = {}
        /\ w.computed = wo.computed
        /\ B_png \in Names(w)
        /\ \A n \in ListedNow :
              \A o \in { ScanFile(disk, PathJoin(InputDir, n)) } :
                  (PathJoin(InputDir, n) \in w.computed /\ (o.raised \/ ~o.has_meta)) =>
                      /\ n \in Names(wo)
                      /\ \E k \in { MetaKey(PathJoin(InputDir, n),
                                            DictGet(w.mtimes, n, 0)) } :
                            /\ k \in DOMAIN w.mc
                            /\ w.mc[k] = [time |-> now, data |-> FALSE]

\* A listing that shows a.png is cached, open() refuses the file now, and
\* the scan has stored false for it and true for the image next to it.
C18_Witness ==
    /\ DirKey(InputDir) \in DOMAIN cache
    /\ cache[DirKey(InputDir)].data.images = <<A_png, B_png>>
    /\ LookupFile(disk, PathJoin(InputDir, A_png)) = Some(File(1, NoAccess))
    /\ ScanFile(disk, PathJoin(InputDir, A_png)).raised
    /\ MetaKey(PathJoin(InputDir, A_png), 1) \in DOMAIN metadata_cache
    /\ ~metadata_cache[MetaKey(PathJoin(InputDir, A_png), 1)].data
    /\ MetaKey(PathJoin(InputDir, B_png), 1) \in DOMAIN metadata_cache
    /\ metadata_cache[MetaKey(PathJoin(InputDir, B_png), 1)].data

\* C23: a file is at a cache path only when it is completely written, and
\* the path a generate_thumbnail call returns, whatever calls came before
\* it, is the path of a completely written artifact.
C23_VisibleOnlyWhenComplete ==
    /\ \A p \in DOMAIN thumbs : thumbs[p] = "ok"
    /\ thumb_last.ret # None =>
          /\ thumb_last.ret[1] \in DOMAIN thumbs
          /\ thumbs[thumb_last.ret[1]] = "ok"

RECURSIVE MarkerReached(_, _, _, _)
\* Walking the chunks from the one that begins at offset off of a file of
\* size bytes: a tEXt or iTXt chunk with a keyword wholly in the first
\* min(length, 1024) bytes of its payload, and in the file, comes before
\* IEND and before a chunk with less than 8 bytes of header in the file.
MarkerReached(chunks, word, off, size) ==
    IF chunks = <<>> \/ off + 8 > size THEN FALSE
    ELSE LET c == Head(chunks)
         IN IF /\ c.type \in {"tEXt", "iTXt"}
               /\ word \in {PROMPT, WORKFLOW}
               /\ c.marker >= Len(word)
               /\ c.marker <= c.length /\ c.marker <= 1024
               /\ off + 8 + c.marker <= size
            THEN TRUE
            ELSE IF c.type = "IEND" THEN FALSE
            ELSE MarkerReached(Tail(chunks), word, off + 8 + c.length + 4, size)

\* C24: the scan of a file's bytes is true exactly when the file begins
\* with the 8-byte signature and the chunk walk from offset 8 reaches such a
\* text chunk; a keyword in a chunk of another type, after IEND, or not
\* wholly within the first 1024 bytes of the payload is not found.  For a
\* whole file this is what the scan of its chunks, as the listing model
\* has them, yields.
C24_ScanIsChunkWalk ==
    scan_last.result # None =>
        /\ scan_last.result[1]
              = ( /\ scan_last.desc.sig
                  /\ Len(scan_last.bytes) >= 8
                  /\ MarkerReached(scan_last.desc.chunks, scan_last.word, 8,
                                   Len(scan_last.bytes)) )
        /\ ( /\ scan_last.word \in {PROMPT, WORKFLOW}
             /\ scan_last.bytes = Encode(scan_last.desc, scan_last.word) )
              => scan_last.result[1]
                    = (scan_last.desc.sig /\ ScanChunks(scan_last.desc.chunks))

\* The scan has found the keyword that ends at the last byte read of a long
\* text chunk.
C24_Witness ==
    /\ scan_last.result = Some(TRUE)
    /\ scan_last.word = WORKFLOW
    /\ Len(scan_last.desc.chunks) = 3
    /\ scan_last.desc.chunks[2] = Chunk("tEXt", TextProbe + 76, TextProbe)

\* C25: in the result of a directory scan, and so in every cached listing,
\* the paths of the image list are the keys of the mtime map, each once,
\* and neither "." nor the empty path is a folder.  The scan of the root as
\* it is now lists every image file under it, the ones whose stat fails
\* too, and their mtime is 0, the others' the mtime on disk.
C25_MtimesCoverImages ==
    /\ \A g \in { cache[k].data : k \in DOMAIN cache } \cup {ScanDirectory(disk, InputDir)} :
          /\ { g.images[i] : i \in DOMAIN g.images } = DOMAIN g.mtimes
          /\ Len(g.images) = Cardinality(DOMAIN g.mtimes)
          /\ \A i \in DOMAIN g.folders : g.folders[i] \notin {<<".">>, <<>>}
    /\ \A g \in {ScanDirectory(disk, InputDir)} :
          /\ DOMAIN g.mtimes = { p \in DOMAIN disk[InputDir].files :
                                    Lower(SplitExt(Basename(p))) \in IMAGE_EXTENSIONS }
          /\ \A p \in DOMAIN g.mtimes :
                g.mtimes[p] = IF disk[InputDir].files[p].stat_ok
                              THEN disk[InputDir].files[p].mtime ELSE 0

\* The cached listing has the image of the root with mtime 0, its stat
\* having failed, the image two folders down with its mtime, and the folders.
C25_Witness ==
    /\ DirKey(InputDir) \in DOMAIN cache
    /\ \A g \in {cache[DirKey(InputDir)].data} :
          /\ g.images = <<A_png, <<"s", "/", "t", "/">> \o C_jpg>>
          /\ g.mtimes[A_png] = 0
          /\ g.mtimes[<<"s", "/", "t", "/">> \o C_jpg] = 1
          /\ g.folders = << <<"s">>, <<"s", "/", "t">>, <<"u">> >>

\* C8: the page returned is entries[(page-1)*page_size : page*page_size],
\* total_pages is the least number of pages that hold every entry and at
\* least 1, the pages read in order from the first add up to the list with
\* no entry twice, and 125 entries in pages of 50 make 3 pages, the last of
\* 25 entries.
C8_PaginationIsSlice ==
    page_req.page >= 1 =>
        LET all == page_req.all_images
            total == Len(all)
            ps == page_req.per_page
            k == page_req.page
            tp == page_req.total_pages
            count == Max(0, Min(ps, total - (k - 1) * ps))
        IN /\ page_req.images = [i \in 1..count |-> all[(k - 1) * ps + i]]
           /\ tp >= 1 /\ tp * ps >= total
           /\ tp > 1 => (tp - 1) * ps < total
           /\ Cardinality({ page_req.read[i] : i \in DOMAIN page_req.read })
                = Len(page_req.read)
           /\ page_req.read_pages >= tp => page_req.read = all
           /\ page_req.read_pages < tp => Len(page_req.read) = page_req.read_pages * ps
           /\ (total = 125 /\ ps = 50) =>
                /\ tp = 3
                /\ k = 1 => page_req.images = SubSeq(all, 1, 50)
                /\ k = 2 => page_req.images = SubSeq(all, 51, 100)
                /\ k = 3 => page_req.images = SubSeq(all, 101, 125)

\* The three pages of the 125 entries have been read in order, and the last
\* one served is the third, of 25 entries.
C8_Witness ==
    /\ Len(page_req.all_images) = 125
    /\ page_req.per_page = 50
    /\ page_req.page = 3
    /\ page_req.total_pages = 3
    /\ Len(page_req.images) = 25
    /\ page_req.read_pages = 3
    /\ page_req.read = page_req.all_images

(***************************************************************************)
(* Properties of the requests that name a file                             *)
(***************************************************************************)
\* A path is inside a directory when it is that directory or lies below it.
Inside(path, dir) == path = dir \/ StartsWith(path, dir \o <<"/">>)

\* C9: a request whose file name resolves to a path outside the resolved
\* root is rejected before it has tested that path for existence, opened it
\* or deleted it, at every entry point that takes a file name.
C9_TraversalRejectedBeforeAccess ==
    (path_last.entry # "none" /\ path_last.filename # <<>>) =>
        LET root == IF path_last.input_dir = <<>> THEN NormPath(InputDir)
                    ELSE NormPath(path_last.input_dir)
            resolved == NormPath(PathJoin(root, path_last.filename))
        IN ~Inside(resolved, root) =>
                /\ path_last.outcome = "rejected"
                /\ path_last.touched = {}

(***************************************************************************)
(* Properties of the source-folder registry and of the listings of it      *)
(***************************************************************************)
\* The unfiltered "__ALL__" listing of the present state.
AllListing ==
    ListImages(cache, metadata_cache, disk, folders_file, ALL, "all", "name", now)

\* C11: in the "__ALL__" listing, whatever folders were registered under
\* whatever names, every entry is named "[folder name] relative path", no
\* two entries have the same name, and the mtime map has exactly one key
\* for each entry.
C11_AllNamesUnique ==
    \A r \in {AllListing} :
        /\ \A i \in DOMAIN r.images :
              \E f \in Range(LoadSourceFolders(disk, folders_file)) :
                  r.images[i].name =
                      <<"[">> \o f.name \o <<"]", " ">> \o r.images[i].original_name
        /\ \A i, j \in DOMAIN r.images :
              i # j => r.images[i].name # r.images[j].name
        /\ Cardinality(DOMAIN r.mtimes) = Len(r.images)

\* The roots list_sources shows, and the directories they are.
RegisteredRoots == Range(LoadSourceFolders(disk, folders_file))
RegisteredDirs == { OsPath(f.path) : f \in RegisteredRoots }
\* The names of the images a directory holds now.
ImagesIn(dir) ==
    IF dir \in DOMAIN disk /\ disk[dir].exists THEN ImagesOnDisk(dir) ELSE {}

\* C13: a request for one source lists the source it names if and only if
\* the normalized path of that source is the normalized path of a
\* registered root and the source is a directory now; otherwise it lists
\* the default root.  The root it returns is the one it listed, what it
\* scans is that root, and the directory scanned is a registered one.
C13_ListsRequestedIffRegistered ==
    \A source \in SourcePaths :
        \A r \in { ListImages(cache, metadata_cache, disk, folders_file,
                              source, "all", "name", now) } :
            LET registered == \E f \in RegisteredRoots :
                                  NormPath(f.path) = NormPath(source)
                usable == source # <<>> /\ registered /\ DirExists(disk, source)
            IN /\ r.input_dir = IF usable THEN source ELSE InputDir
               /\ r.listed = {r.input_dir}
               /\ r.scanned \subseteq r.listed
               /\ OsPath(r.input_dir) \in RegisteredDirs
               /\ r.scanned # {} => Names(r) = ImagesIn(OsPath(r.input_dir))

\* The second folder is registered, and a request that named it with a
\* slash after its path has listed it under the path as given.
C13_Witness ==
    /\ \E f \in RegisteredRoots : f.path = ExtDir
    /\ DirKey(ExtDir \o <<"/">>) \in DOMAIN cache
    /\ cache[DirKey(ExtDir \o <<"/">>)].data.images = <<A_png>>
    /\ SiblingDir \notin RegisteredDirs

\* A list of roots with exactly one default root, which is the default
\* input directory, and no normalized path twice.
OneDefaultNoDuplicates(folders) ==
        /\ Cardinality({ i \in DOMAIN folders : folders[i].is_default }) = 1
        /\ \A i \in DOMAIN folders :
              folders[i].is_default => NormPath(folders[i].path) = NormPath(InputDir)
        /\ \A i, j \in DOMAIN folders :
              i # j => NormPath(folders[i].path) # NormPath(folders[j].path)

\* C14: after every registry request, accepted or rejected, list_sources
\* shows exactly one default root and no normalized path twice; a request
\* to register a path already registered and a request to deregister the
\* default root are rejected, and a rejected request leaves the
\* configuration file as it was.
C14_RegistryKeepsOneDefault ==
    [][ /\ \A folders \in {LoadSourceFolders(disk', folders_file')} :
              OneDefaultNoDuplicates(folders)
        /\ (src_last' # src_last /\ src_last'.op \in {"add", "remove"}) =>
              /\ src_last'.status = 400 => folders_file' = folders_file
              /\ ( /\ src_last'.op = "add"
                   /\ \E f \in RegisteredRoots :
                         NormPath(f.path) = NormPath(src_last'.path) )
                    => src_last'.status = 400
              /\ ( /\ src_last'.op = "remove"
                   /\ NormPath(src_last'.path) = NormPath(InputDir) )
                    => src_last'.status = 400
      ]_vars

\* The second folder is registered, and a request to register it again,
\* written with a slash after its path, has been rejected.
C14_Witness ==
    /\ \E f \in RegisteredRoots : f.path = ExtDir
    /\ src_last.op = "add"
    /\ src_last.path = ExtDir \o <<"/">>
    /\ src_last.status = 400

\* The configuration file holds the root set the last registry request
\* made: with the folder it registered, without the one it deregistered.
Persisted ==
    /\ folders_file # None
    /\ src_last.op = "add" =>
          \E f \in Range(folders_file[1]) : f.path = NormPath(src_last.path)
    /\ src_last.op = "remove" =>
          \A f \in Range(folders_file[1]) : NormPath(f.path) # NormPath(src_last.path)

\* C15: when a register or deregister request has reported success, the
\* new root set is in the configuration file and the listing cache has been
\* invalidated after that, so that the next list_images request, whatever
\* its source, scans every directory it lists.
C15_SuccessPersistsThenInvalidates ==
    (src_last.op \in {"add", "remove"} /\ src_last.status = 200) =>
        /\ Persisted
        /\ cache = EmptyDict
        /\ \A source \in SourcePaths \cup {ALL} :
              \A r \in { ListImages(cache, metadata_cache, disk, folders_file,
                                    source, "all", "name", now) } :
                  r.scanned = r.listed

\* A directory that was never there.
NoSuchDir == <<"/", "n", "o">>

\* C19: the scan of a directory that does not exist yields no image, no
\* folder and no mtime; a list_images request whose root does not exist
\* and that scans it (no fresh listing of it is cached) returns no entry,
\* no folder and no mtime, and caches that listing.
C19_MissingRootListsNothing ==
    /\ \A dir \in {InputDir, ExtDir, SiblingDir, NoSuchDir} :
          ~DirExists(disk, dir) =>
              \A g \in { ScanDirectory(disk, dir) } :
                  g.images = <<>> /\ g.folders = <<>> /\ g.mtimes = <<>>
    /\ \A source \in SourcePaths :
          \A r \in { ListImages(cache, metadata_cache, disk, folders_file,
                                source, "all", "name", now) } :
              (~DirExists(disk, r.input_dir) /\ r.scanned # {}) =>
                  /\ r.images = <<>> /\ r.folders = <<>> /\ r.mtimes = <<>>
                  /\ r.cache[DirKey(r.input_dir)].data.images = <<>>

\* The default root is gone and a list_images request has scanned it: the
\* listing cached for it is empty.
C19_Witness ==
    /\ ~DirExists(disk, InputDir)
    /\ src_last.op = "list"
    /\ DirKey(InputDir) \in DOMAIN cache
    /\ cache[DirKey(InputDir)].data.images = <<>>
    /\ cache[DirKey(InputDir)].data.mtimes = <<>>

(***************************************************************************)
(* Properties of the request dispatcher                                    *)
(***************************************************************************)
\* C20: while the work of a list or thumbnail request (its directory scan,
\* metadata scan or thumbnail generation) is running, a worker thread of the
\* pool is running it and the event loop's thread is not: the loop runs no
\* handler, so that it can start the handler of a request that waits.
C20_LoopNeverRunsFilesystemWork ==
    \A id \in DOMAIN dispatcher.reqs :
        (dispatcher.reqs[id].kind \in {"list", "thumb"}
            /\ dispatcher.reqs[id].phase \in {"work", "suspended"}) =>
            /\ id \in dispatcher.pool
            /\ dispatcher.loop = 0

C22_EntryIsOneWholeScan ==
    [][ \A k \in DOMAIN cache' :
          /\ { cache'[k].data.images[i] : i \in DOMAIN cache'[k].data.images }
                = DOMAIN cache'[k].data.mtimes
          /\ (k \notin DOMAIN cache \/ cache'[k] # cache[k]) =>
                \E t \in Threads :
                    /\ th[t].pc = "store" /\ th'[t].pc = "idle"
                    /\ k = DirKey(th[t].dir)
                    /\ LockFree(t)
                    /\ cache'[k] = [time |-> now, data |-> th[t].scanned]
      ]_vars

\* Two refreshers have raced: one has stored its scan, which is the entry,
\* and the other holds another scan that it has yet to store.
C22_Witness ==
    /\ th["t1"].pc = "store"
    /\ DirKey(InputDir) \in DOMAIN cache
    /\ cache[DirKey(InputDir)].data # th["t1"].scanned
    /\ ~last_listing.hit
    /\ last_listing.data = cache[DirKey(InputDir)].data

\* C30 as stated: the scan whose result replaces a listing entry did not
\* start before the scan that made the entry it replaces.
C30_NeverReplacedByOlderScan ==
    \A k \in DOMAIN listing_epoch : listing_epoch[k].over <= listing_epoch[k].at

\* C30, amended: an entry may be replaced by the result of an older scan,
\* but the scan of an entry started no later than the entry's timestamp, and
\* a value returned from the cache at time t has a timestamp of t - 30 s or
\* later, so that its scan started no earlier than t minus 30 s minus the
\* time that scan took.
C30_HitIsFromRecentStore ==
    [][ /\ \A k \in DOMAIN cache' : listing_epoch'[k].at <= cache'[k].time
        /\ (last_listing' # last_listing /\ last_listing'.hit) =>
              \A k \in {DirKey(last_listing'.dir)} :
                  /\ now - cache[k].time <= TTL
                  /\ listing_epoch[k].at
                        >= now - TTL - (cache[k].time - listing_epoch[k].at)
      ]_vars

\* The entry holds a scan that started before the scan of the entry it
\* replaced, and a call has been served from it.
C30_Witness ==
    /\ DirKey(InputDir) \in DOMAIN cache
    /\ listing_epoch[DirKey(InputDir)].over > listing_epoch[DirKey(InputDir)].at
    /\ last_listing.hit
    /\ last_listing.data = cache[DirKey(InputDir)].data

(***************************************************************************)
(* Properties of the sort orders                                           *)
(***************************************************************************)
\* The entries of a list are in case-insensitive order of name, in
\* descending and in ascending order of modification time.
ByName(images) ==
    \A i, j \in DOMAIN images :
        i < j => StrLeq(Lower(images[i].name), Lower(images[j].name))
NewestFirst(images) ==
    \A i, j \in DOMAIN images : i < j => images[i].mtime >= images[j].mtime
OldestFirst(images) ==
    \A i, j \in DOMAIN images : i < j => images[i].mtime <= images[j].mtime

\* C12 as stated: sort "name" serves the entries in case-insensitive
\* ascending order of name, sort "date_desc" by modification time
\* descending, sort "date_asc" by modification time ascending.
C12_SortOrdersAsNamed ==
    /\ sort_last.sort = "name" => ByName(sort_last.images)
    /\ sort_last.sort = "date_desc" => NewestFirst(sort_last.images)
    /\ sort_last.sort = "date_asc" => OldestFirst(sort_last.images)

\* C12, amended: the value that asks for modification time descending is
\* "date"; "name" and "date_asc" are as stated; a request with any other
\* value, "date_desc" included, is served in order of name.
C12_SortOrders ==
    /\ sort_last.sort = "name" => ByName(sort_last.images)
    /\ sort_last.sort = "date" => NewestFirst(sort_last.images)
    /\ sort_last.sort = "date_asc" => OldestFirst(sort_last.images)
    /\ sort_last.sort \in SortValues \ {"name", "date", "date_asc"} =>
            ByName(sort_last.images)

\* a.png older than B.png, served newest first: B.png, then a.png.
C12_Witness ==
    /\ sort_last.sort = "date"
    /\ sort_last.source = <<>>
    /\ Len(sort_last.images) = 2
    /\ sort_last.images[1].name = B_png /\ sort_last.images[1].mtime = 2
    /\ sort_last.images[2].name = A_png /\ sort_last.images[2].mtime = 1

(***************************************************************************)
(* The metadata filter and the metadata-status partition                   *)
(***************************************************************************)
\* The candidates of a request: for each directory it listed, each image of
\* the listing it used, as <<directory, name, mtime of the listing>>.
Candidates(r) ==
    LET Of(dir, data) ==
            { <<dir, data.images[i], DictGet(data.mtimes, data.images[i], 0)>> :
                i \in DOMAIN data.images }
    IN UNION { Of(dir, r.cache[DirKey(dir)].data) : dir \in r.listed }
Kept(r) ==
    { <<r.images[i].source_folder, r.images[i].original_name, r.images[i].mtime>> :
        i \in DOMAIN r.images }
FullPath(cand) == PathJoin(cand[1], cand[2])

\* The candidates whose status a request at time t finds in the partition mc
\* (stored no more than 300 seconds before), and those it does not.
StatusCached(mc, cand, t) ==
    /\ MetaKey(FullPath(cand), cand[3]) \in DOMAIN mc
    /\ t - mc[MetaKey(FullPath(cand), cand[3])].time <= 300
Misses(mc, r, t) ==
    { cand \in Candidates(r) : IsPngPath(FullPath(cand)) /\ ~StatusCached(mc, cand, t) }

\* What the filter loop of request r, made at time t on the partition mc,
\* does: a candidate that is no PNG counts as without metadata and touches
\* neither the partition nor the file; a PNG whose status is cached takes
\* it from there; any other PNG is read and its status stored under
\* (path, mtime) at time t; the entries kept are those whose status matches.
FilterAsDescribed(mc, r, metadata_filter, t) ==
    LET status(cand) ==
            IF ~IsPngPath(FullPath(cand)) THEN FALSE
            ELSE IF StatusCached(mc, cand, t)
                 THEN mc[MetaKey(FullPath(cand), cand[3])].data
                 ELSE ReadMetadata(disk, FullPath(cand))
    IN /\ Kept(r) = { cand \in Candidates(r) : status(cand) = (metadata_filter = "with") }
       /\ r.computed = { FullPath(cand) : cand \in Misses(mc, r, t) }
       /\ DOMAIN r.mc = DOMAIN mc
                \cup { MetaKey(FullPath(cand), cand[3]) : cand \in Misses(mc, r, t) }
       /\ \A cand \in Misses(mc, r, t) :
             r.mc[MetaKey(FullPath(cand), cand[3])]
                = [time |-> t, data |-> ReadMetadata(disk, FullPath(cand))]
       /\ \A k \in DOMAIN mc :
             k \notin { MetaKey(FullPath(cand), cand[3]) : cand \in Misses(mc, r, t) }
                => r.mc[k] = mc[k]

FilteredArgs == { a \in QueryArgs : a[2] # "all" }

\* C27 as stated: a filtered request takes each status from the partition
\* or, on a miss, from the file, stores it and keeps the matching entries;
\* and the same request made again within 300 seconds over the same listing
\* reads no file.
C27_SecondQueryReadsNoFile ==
    \A a \in FilteredArgs :
        LET r1 == ListImages(cache, metadata_cache, disk, folders_file,
                             a[1][1], a[2], a[1][2], now)
            r2 == ListImages(r1.cache, r1.mc, disk, folders_file,
                             a[1][1], a[2], a[1][2], now + Delay)
        IN /\ FilterAsDescribed(metadata_cache, r1, a[2], now)
           /\ (Delay <= 300 /\ Candidates(r2) = Candidates(r1)) => r2.computed = {}

\* C27, amended: a filtered request does what FilterAsDescribed says, and
\* the same request made again over the same listing reads exactly the PNG
\* files whose status was stored more than 300 seconds before it: none of
\* those the first request read, if it comes within 300 seconds of the
\* first; but a status the first request found in the partition keeps the
\* time it was stored at, and is read again once that is 300 seconds past.
C27_SecondQueryReadsOnlyExpired ==
    \A a \in FilteredArgs :
        LET r1 == ListImages(cache, metadata_cache, disk, folders_file,
                             a[1][1], a[2], a[1][2], now)
            r2 == ListImages(r1.cache, r1.mc, disk, folders_file,
                             a[1][1], a[2], a[1][2], now + Delay)
        IN /\ FilterAsDescribed(metadata_cache, r1, a[2], now)
           /\ (Delay <= 300 /\ Candidates(r2) = Candidates(r1)) =>
                /\ r2.computed \cap r1.computed = {}
                /\ r2.computed =
                      { FullPath(cand) : cand \in Misses(r1.mc, r1, now + Delay) }

\* The status of the image was stored 300 seconds ago: a "with" request
\* now takes it from the partition and reads nothing, and the same request
\* a moment later, over the same listing, reads the file; the JPEG of the
\* folder is in neither request looked up or read.
C27_Witness ==
    /\ MetaKey(PathJoin(InputDir, A_png), 1) \in DOMAIN metadata_cache
    /\ now - metadata_cache[MetaKey(PathJoin(InputDir, A_png), 1)].time = 300
    /\ LET r1 == ListImages(cache, metadata_cache, disk, folders_file,
                            <<>>, "with", "name", now)
           r2 == ListImages(r1.cache, r1.mc, disk, folders_file,
                            <<>>, "with", "name", now + Delay)
       IN /\ Candidates(r1) = { <<InputDir, A_png, 1>>, <<InputDir, C_jpg, 2>> }
          /\ Candidates(r2) = Candidates(r1)
          /\ r1.computed = {}
          /\ Names(r1) = {A_png}
          /\ r2.computed = { PathJoin(InputDir, A_png) }

PersistedRoots(ff) ==
    IF ff = None THEN {} ELSE { NormPath(ff[1][i].path) : i \in DOMAIN ff[1] }

\* C29: a registration or deregistration of P that rewrites the
\* configuration file leaves in it every root other than P that it held,
\* whether the directory of that root exists at the moment of the call or not.
C29_OtherRootsStayRegistered ==
    [][ folders_file' # folders_file =>
            \A root \in PersistedRoots(folders_file) \ {NormPath(src_last'.path)} :
                root \in PersistedRoots(folders_file')
      ]_vars

(***************************************************************************)
(* Ties of a sort by modification time                                     *)
(***************************************************************************)
\* The place of a root in the list of source folders.
RootIndex(path) ==
    LET folders == LoadSourceFolders(disk, folders_file)
    IN CHOOSE k \in DOMAIN folders : folders[k].path = path

\* C26 as stated: in a sort by modification time the entries of equal
\* modification time are in case-insensitive order of name, for one root and
\* for "__ALL__", with and without a metadata filter.
C26_TiesInNameOrder ==
    sort_last.sort \in {"date", "date_desc", "date_asc"} =>
        \A i, j \in DOMAIN sort_last.images :
            (i < j /\ sort_last.images[i].mtime = sort_last.images[j].mtime) =>
                StrLeq(Lower(sort_last.images[i].name), Lower(sort_last.images[j].name))

\* C26, amended: the entries of equal modification time are in
\* case-insensitive order of name when they come from one root; in an
\* "__ALL__" query entries of different roots are in the order of their
\* roots in the list of source folders, whatever their names. (The sorts by
\* modification time are the ones the values "date" and "date_asc" ask for.)
C26_TiesKeepRootThenNameOrder ==
    sort_last.sort \in {"date", "date_asc"} =>
        \A i, j \in DOMAIN sort_last.images :
            (i < j /\ sort_last.images[i].mtime = sort_last.images[j].mtime) =>
                IF sort_last.images[i].source_folder = sort_last.images[j].source_folder
                THEN StrLeq(Lower(sort_last.images[i].name),
                            Lower(sort_last.images[j].name))
                ELSE RootIndex(sort_last.images[i].source_folder)
                        < RootIndex(sort_last.images[j].source_folder)

\* An "__ALL__" query by date, filtered: "[input] a.png" and "[a] D.jpg" have
\* the same modification time and are served in this order.
C26_Witness ==
    /\ sort_last.sort = "date"
    /\ sort_last.source = ALL
    /\ sort_last.filter = "without"
    /\ \E i, j \in DOMAIN sort_last.images :
          /\ i < j
          /\ sort_last.images[i].mtime = sort_last.images[j].mtime
          /\ sort_last.images[i].original_name = A_png
          /\ sort_last.images[j].original_name = D_jpg
          /\ StrLess(Lower(sort_last.images[j].name), Lower(sort_last.images[i].name))

====
